---------------------------- MODULE Spec2Model ----------------------------
(***************************************************************************)
(* Muxify: the connection registry (ConnectionManager), its executors and  *)
(* the command handlers that drive tmux, modelled as state machines.       *)
(*                                                                         *)
(* Spec       the ConnectionManager with its executor cache, the secret    *)
(*            storage and the persisted connection list, driven by one     *)
(*            caller that awaits each call before making the next.  An     *)
(*            async method is one call slot that advances from await to    *)
(*            await; the code between two awaits is one atomic step        *)
(*            (single JavaScript thread).                                  *)
(* SpecAsync  the same methods driven by MaxCalls callers whose calls      *)
(*            overlap at their awaits.                                     *)
(* SpecCmd    the muxify.killPane / muxify.deleteWindow command handlers   *)
(*            of a tree view that allows multi-selection.                  *)
(* SpecPersist  add, update, remove and restart on two ssh connections.    *)
(* SpecExec     execute and testConnection through the registry.           *)
(* SpecPair     calls on two connections, one of which does not answer.    *)
(* SpecExecutor a LocalExecutor and an SSHExecutor used directly.          *)
(* SpecTmux     the mutating operations of TmuxService.                    *)
(* SpecList     listSessions, listWindows and listPanes.                   *)
(* SpecTree     getSessionTree.                                            *)
(* SpecMouse    enableMouseMode and disableMouseMode on ~/.tmux.conf.      *)
(* SpecStream   the stream of a remote command, chunk by chunk.            *)
(* SpecClients  an SSHExecutor with every Client it creates, under         *)
(*              overlapping execute calls and dispose.                     *)
(* SpecDeactivate  overlapping getExecutor calls and deactivate().         *)
(* SpecStore    add and remove over a Credential Store that can reject.    *)
(* SpecEdit     updates as the command muxify.editConnection makes them.   *)
(***************************************************************************)
EXTENDS Naturals, Sequences, FiniteSets, TLC

(***************************************************************************)
(* Bounds of the model.                                                    *)
(***************************************************************************)
MaxCalls == 2       \* async ConnectionManager calls in flight at once
MaxExecutors == 3   \* executor objects alive at once
MaxBatch == 3       \* tree items selected when a delete command is invoked
MaxChunks == 2      \* chunks that the stream of one command emits
MaxClients == 2     \* transport clients that one executor creates

(***************************************************************************)
(* Program constants (static readonly fields of ConnectionManager).        *)
(***************************************************************************)
LOCAL_CONNECTION_ID == "local"
PASSWORD_PREFIX == "muxify.ssh.password."
PASSPHRASE_PREFIX == "muxify.ssh.passphrase."

\* JavaScript's undefined: an absent optional field, a Map.get miss.
Undefined == "undefined"

\* An absent config object (connection.config of the local connection), and
\* the result of Map.get for a key the map does not hold.
NoConfig == [absent |-> "config"]

NoConnection == [absent |-> "connection"]

\* JavaScript truthiness of an optional string (if (config.password), !x).
Truthy(v) == v # Undefined /\ v # ""

(***************************************************************************)
(* SSHConnectionConfig values handed to addSSHConnection and               *)
(* updateSSHConnection.                                                    *)
(***************************************************************************)
SSHConnectionConfig(id, name, host, port, username, authType, password, passphrase) ==
    [id |-> id, name |-> name, host |-> host, port |-> port,
     username |-> username, authType |-> authType, password |-> password,
     privateKeyPath |-> IF authType = "privateKey" THEN "~/.ssh/id_rsa" ELSE Undefined,
     passphrase |-> passphrase]

\* The ids the callers use.  "ssh-1" stands for an id the add command
\* generates (`ssh-${Date.now()}`); "local" is the id of the built-in
\* connection, which the registry's methods accept like any other string.
ConnectionIds == {LOCAL_CONNECTION_ID, "ssh-1"}

\* The ids that the maps of the registry are followed for: those, and the
\* id of a second ssh connection.
RegistryIds == ConnectionIds \cup {"ssh-2"}

\* The configs the callers pass: password and private-key authentication on
\* two endpoints, and one config that carries the id of the local connection.
InputConfigs ==
    { SSHConnectionConfig("ssh-1", Undefined, "h1", 22, "u1", "password", "pw1", Undefined),
      SSHConnectionConfig("ssh-1", "box", "h2", 2222, "u2", "password", "pw2", Undefined),
      SSHConnectionConfig("ssh-1", Undefined, "h2", 2222, "u2", "privateKey", "pw2", "pp1"),
      SSHConnectionConfig(LOCAL_CONNECTION_ID, Undefined, "h1", 22, "u1", "privateKey", Undefined, Undefined) }

(***************************************************************************)
(* JavaScript Map<string, Connection>: a sequence of records in insertion  *)
(* order; set() on a present key replaces the value in place.              *)
(***************************************************************************)
MapHas(m, id) == \E i \in 1..Len(m) : m[i].id = id

MapGet(m, id) ==
    IF MapHas(m, id) THEN m[CHOOSE i \in 1..Len(m) : m[i].id = id] ELSE NoConnection

MapSet(m, conn) ==
    IF MapHas(m, conn.id)
    THEN [i \in 1..Len(m) |-> IF m[i].id = conn.id THEN conn ELSE m[i]]
    ELSE Append(m, conn)

MapDelete(m, id) == SelectSeq(m, LAMBDA c : c.id # id)

(***************************************************************************)
(* vscode.SecretStorage: a function from the stored keys to their values.  *)
(***************************************************************************)
PasswordKey(id) == PASSWORD_PREFIX \o id

SecretsStore(s, key, value) ==
    [k \in DOMAIN s \cup {key} |-> IF k = key THEN value ELSE s[k]]

SecretsGet(s, key) == IF key \in DOMAIN s THEN s[key] ELSE Undefined

\* The passphrase key built with the prefix of the password key.
PassphraseKeyShared(id) == PASSWORD_PREFIX \o id

PassphraseKey(id) == PASSPHRASE_PREFIX \o id

\* A delete that leaves the entry in the store.
SecretsDeleteLeavesEntry(s, key) == s

SecretsDelete(s, key) == [k \in DOMAIN s \ {key} |-> s[k]]

(***************************************************************************)
(* JavaScript values that are a number, a string or undefined (err.code,   *)
(* err.stderr, the close code of a stream), tagged with their type; a      *)
(* string is held as its characters.                                       *)
(***************************************************************************)
JsUndefined == [t |-> "undefined", n |-> 0, s |-> << >>]

JsNumber(n) == [t |-> "number", n |-> n, s |-> << >>]

JsString(s) == [t |-> "string", n |-> 0, s |-> s]

JsNull == [t |-> "null", n |-> 0, s |-> << >>]

\* The truthiness that || and ?: test.
JsTruthy(v) == (v.t = "number" /\ v.n # 0) \/ (v.t = "string" /\ v.s # << >>)

\* a || b
JsOr(a, b) == IF JsTruthy(a) THEN a ELSE b

IsSpace(ch) == ch \in {" ", "\n", "\t"}

RECURSIVE TrimStart(_)
TrimStart(s) == IF s # << >> /\ IsSpace(Head(s)) THEN TrimStart(Tail(s)) ELSE s

RECURSIVE TrimEnd(_)
TrimEnd(s) ==
    IF s # << >> /\ IsSpace(s[Len(s)]) THEN TrimEnd(SubSeq(s, 1, Len(s) - 1)) ELSE s

\* String.prototype.trim
Trim(s) == TrimEnd(TrimStart(s))

\* v?.trim(): undefined stays undefined.
OptionalTrim(v) == IF v.t = "string" THEN JsString(Trim(v.s)) ELSE JsUndefined

\* CommandResult; NoResult where a call produced none.
CommandResult(stdout, stderr, exitCode) ==
    [stdout |-> stdout, stderr |-> stderr, exitCode |-> exitCode]

NoResult == CommandResult(JsUndefined, JsUndefined, JsUndefined)

(***************************************************************************)
(* Executors.  An executor is an object on the heap, named by its index.   *)
(* An SSHExecutor has a config, a client and the connected flag; client is *)
(* "null" or the state of the ssh2 Client it holds:                        *)
(*   "idle"        created, connect() not called (key file unreadable)     *)
(*   "connecting"  client.connect() called, no event yet                   *)
(*   "ready"       'ready' emitted                                         *)
(*   "error"       'error' emitted                                         *)
(*   "closed"      'close' emitted by the server side                      *)
(*   "ended"       end() called on it by dispose (SpecClients)             *)
(* stale holds the states of the Clients that the executor created earlier *)
(* and refers to no more, oldest first (SpecClients); their handlers still *)
(* write the connected flag of the executor.                               *)
(* A heap cell that holds no object is Free.                               *)
(***************************************************************************)
NoExecutor == 0

Free == [kind |-> "free", config |-> NoConfig, client |-> "null", connected |-> FALSE,
         stale |-> << >>]

LocalExecutor == [kind |-> "local", config |-> NoConfig, client |-> "null", connected |-> FALSE,
                  stale |-> << >>]

SSHExecutor(config) == [kind |-> "ssh", config |-> config, client |-> "null", connected |-> FALSE,
                        stale |-> << >>]

\* SSHExecutor.connect: the ConnectConfig handed to client.connect.  The
\* password is set for password authentication, the passphrase for
\* private-key authentication when the config has one.
ConnectConfig(config) ==
    [host |-> config.host, port |-> config.port, username |-> config.username,
     password |-> IF config.authType = "password" THEN config.password ELSE Undefined,
     passphrase |-> IF config.authType = "privateKey" /\ Truthy(config.passphrase)
                    THEN config.passphrase ELSE Undefined]

\* A dispose that drops the client and leaves the connected flag.
ExecutorDisposeKeepsFlag(e) ==
    IF e.kind = "ssh" /\ e.client # "null" THEN [e EXCEPT !.client = "null"] ELSE e

\* LocalExecutor.dispose does nothing; SSHExecutor.dispose ends and drops the
\* client if there is one.
ExecutorDispose(e) ==
    IF e.kind = "ssh" /\ e.client # "null"
    THEN [e EXCEPT !.client = "null", !.connected = FALSE]
    ELSE e

\* The executor holds a transport client that is open or being opened.
HasOpenClient(e) == e.kind = "ssh" /\ e.client \in {"connecting", "ready"}

(***************************************************************************)
(* Connection records and the persisted list.                              *)
(***************************************************************************)
LocalConnection ==
    [id |-> LOCAL_CONNECTION_ID, type |-> "local", name |-> "local-name", config |-> NoConfig]

\* config.name || `${config.username}@${config.host}`
ConnectionName(config) ==
    IF Truthy(config.name) THEN config.name ELSE config.username \o "@" \o config.host

SSHConnection(config) ==
    [id |-> config.id, type |-> "ssh", name |-> ConnectionName(config), config |-> config]

\* A copy that clears the password only.
StripPasswordOnly(config) == [config EXCEPT !.password = Undefined]

\* { ...c.config, password: undefined, passphrase: undefined }
StripSecrets(config) ==
    [config EXCEPT !.password = Undefined, !.passphrase = Undefined]

\* saveConnections: the ssh connections, in Map order, secrets stripped.
SafeConnections(conns) ==
    LET ssh == SelectSeq(conns, LAMBDA c : c.type = "ssh")
    IN [i \in 1..Len(ssh) |->
          [ssh[i] EXCEPT !.config =
              IF ssh[i].config # NoConfig THEN StripSecrets(ssh[i].config) ELSE NoConfig]]

\* loadConnections: every saved record of type ssh with a config is set into
\* the map that already holds the local connection.
RECURSIVE LoadInto(_, _)
LoadInto(conns, saved) ==
    IF saved = << >> THEN conns
    ELSE LET conn == Head(saved)
         IN LoadInto(IF conn.type = "ssh" /\ conn.config # NoConfig
                     THEN MapSet(conns, conn) ELSE conns,
                     Tail(saved))

(***************************************************************************)
(* Callers.  A caller makes one ConnectionManager call at a time and       *)
(* awaits it; calls[c] holds the locals of the pending call of caller c:   *)
(*   op, pc   the method and the await it is suspended at                  *)
(*   id       the connection id it was called with                         *)
(*   config   getExecutor's local copy of the config / add's argument      *)
(*   ex       the executor it constructed (getExecutor) or evicted (remove)*)
(*   reg      (remove) the id named a registered ssh connection            *)
(*   upd      (getExecutor) the call is the first getExecutor of its id    *)
(*            since an updateSSHConnection evicted a cached executor of    *)
(*            the id, and the registered config has not been set since     *)
(*   did      (execute) what executor.execute has done for the call so     *)
(*            far: "connect" for a call of connect(), "exec" for a command *)
(*            handed to the transport or to the local shell                *)
(*   was      (execute) the client of the executor when executor.execute   *)
(*            was entered                                                  *)
(*   stdout, stderr   (execute) the strings that the data handlers of the  *)
(*            command's stream have built so far                           *)
(*   arrived  (execute) the chunks that the stream has emitted so far, in  *)
(*            arrival order, each with its channel                         *)
(*   client   (execute, SpecClients) the Client whose connect the call     *)
(*            awaits: 0 the current client of the executor, k the k-th of  *)
(*            its stale clients                                            *)
(*   sent     (execute, SpecClients) the state of the client that the      *)
(*            command was handed to, when it was handed over               *)
(*   before   (add, remove, SpecStore) the registry and the store as they  *)
(*            were when the call was made                                  *)
(* op is the method the caller called: getExecutor, add, remove, execute   *)
(* (ConnectionManager.execute), test (testConnection) or exec (execute     *)
(* called on an executor the caller holds).                                *)
(* With one caller the calls are serial; with several they overlap at      *)
(* their awaits.                                                           *)
(***************************************************************************)
Idle == [op |-> "idle", pc |-> "", id |-> "", config |-> NoConfig, ex |-> NoExecutor,
         reg |-> FALSE, upd |-> FALSE, did |-> << >>, was |-> "",
         stdout |-> << >>, stderr |-> << >>, arrived |-> << >>, client |-> 0, sent |-> "",
         before |-> << >>]

\* What the last step settled: the method, its argument, how it settled
\* (status), the executor it returned (ret), the executor it evicted (old),
\* for getExecutor whether it constructed an executor (made) rather than
\* returning the cached one, and for addSSHConnection the config it was
\* called with.  For execute, testConnection and an executor's execute:
\* ret is the executor that ran, cause how the execution ended (status is
\* "ok" for every testConnection), result the CommandResult, value the
\* boolean testConnection returned, code the exit code the command ended
\* with, did, was and arrived as in the call.  For an executor's dispose:
\* ret and was.  For an addSSHConnection or removeConnection that the
\* Credential Store rejected: before as in the call.
NoEvent == [op |-> "none", id |-> "", status |-> "", ret |-> NoExecutor, old |-> NoExecutor,
            reg |-> FALSE, upd |-> FALSE, made |-> FALSE, config |-> NoConfig,
            cause |-> "", result |-> NoResult, value |-> FALSE, code |-> JsUndefined,
            did |-> << >>, was |-> "", arrived |-> << >>, before |-> << >>]

Event(op, id, status) == [NoEvent EXCEPT !.op = op, !.id = id, !.status = status]

VARIABLES
    connections,   \* ConnectionManager.connections (Map, insertion order)
    executors,     \* ConnectionManager.executors: id -> heap index or NoExecutor
    heap,          \* the executor objects
    secrets,       \* context.secrets
    persisted,     \* context.globalState['muxify.connections']
    calls,         \* per caller: its pending call
    last,          \* the call that settled in the last step, if one did
    got,           \* per id: the executor the first successful getExecutor
                   \* returned since the cache entry of the id was last evicted
    upd,           \* per id: updateSSHConnection evicted a cached executor
                   \* of the id, the registered config was not set since
                   \* and getExecutor was not called for the id since
    held,          \* executors that code outside the registry constructed
                   \* and holds (SpecExecutor)
    cmd,           \* the delete command of the tree view (SpecCmd)
    svc,           \* the TmuxService operation in progress (SpecTmux)
    conf,          \* ~/.tmux.conf on the host of the connection (SpecMouse)
    active         \* the extension is activated and not deactivated

vars == <<connections, executors, heap, secrets, persisted, calls, last, got, upd, held, cmd,
          svc, conf, active>>

\* The registry state as one record; last starts every step as NoEvent.
Cur == [connections |-> connections, executors |-> executors, heap |-> heap,
        secrets |-> secrets, persisted |-> persisted, calls |-> calls,
        last |-> NoEvent, got |-> got, upd |-> upd, held |-> held, active |-> active]

\* The connection set, the executor cache as the executors it holds per id,
\* the Credential Store and the persisted list.
Snapshot ==
    [connections |-> connections,
     cache |-> [id \in DOMAIN executors |->
                  IF executors[id] = NoExecutor THEN Free ELSE heap[executors[id]]],
     secrets |-> secrets,
     persisted |-> persisted]

HasFreeCaller == \E c \in DOMAIN calls : calls[c].op = "idle"

FreeCaller == CHOOSE c \in DOMAIN calls : calls[c].op = "idle"

AllIdle == \A c \in DOMAIN calls : calls[c].op = "idle"

\* Caller c is suspended in op at the await pc.
Suspended(c, op, pc) == c \in DOMAIN calls /\ calls[c].op = op /\ calls[c].pc = pc

\* The registered config of id is set: a pending getExecutor(id) is no
\* longer the call that follows the last update of the id.
VoidUpd(cs, id) ==
    [c \in DOMAIN cs |-> IF cs[c].op = "getExecutor" /\ cs[c].id = id
                         THEN [cs[c] EXCEPT !.upd = FALSE] ELSE cs[c]]

IsRegisteredSSH(conns, id) == MapHas(conns, id) /\ MapGet(conns, id).type = "ssh"

(***************************************************************************)
(* The heap.  The objects occupy the first cells, oldest first; new takes  *)
(* the next cell.  After every step the executors that nothing refers to   *)
(* any more (not the cache, no pending call, not the step's result) and    *)
(* that hold no open client are collected, the remaining objects move up   *)
(* and every reference is renumbered with them; the pending calls likewise *)
(* occupy the first places of calls, oldest first.  Names of objects and   *)
(* callers carry no meaning beyond identity.                               *)
(***************************************************************************)
HasFreeExecutor == heap[MaxExecutors].kind = "free"

NewExecutor == CHOOSE ex \in DOMAIN heap :
                  heap[ex].kind = "free" /\ \A k \in 1..(ex - 1) : heap[k].kind # "free"

Referenced(n) ==
    {n.executors[id] : id \in DOMAIN n.executors} \cup {n.calls[c].ex : c \in DOMAIN n.calls}
        \cup {n.last.ret, n.last.old} \cup {n.got[id] : id \in DOMAIN n.got} \cup n.held

Kept(n) ==
    {ex \in DOMAIN n.heap :
        n.heap[ex].kind # "free" /\ (ex \in Referenced(n) \/ HasOpenClient(n.heap[ex]))}

Normalize(n) ==
    LET keep == Kept(n)
        Moved(ex) == IF ex \in keep THEN Cardinality({k \in keep : k <= ex}) ELSE NoExecutor
        busy == SelectSeq(n.calls, LAMBDA call : call.op # "idle")
    IN [n EXCEPT
          !.heap = [i \in DOMAIN n.heap |->
                      IF i <= Cardinality(keep)
                      THEN n.heap[CHOOSE ex \in keep : Moved(ex) = i] ELSE Free],
          !.executors = [id \in DOMAIN n.executors |-> Moved(n.executors[id])],
          !.got = [id \in DOMAIN n.got |-> Moved(n.got[id])],
          !.held = {Moved(ex) : ex \in n.held},
          !.last = [n.last EXCEPT !.ret = Moved(n.last.ret), !.old = Moved(n.last.old)],
          !.calls = [c \in DOMAIN n.calls |->
                       IF c <= Len(busy) THEN [busy[c] EXCEPT !.ex = Moved(busy[c].ex)]
                       ELSE Idle]]

\* The step's result n becomes the next state.
Commit(n) ==
    LET m == Normalize(n)
    IN /\ connections' = m.connections
       /\ executors' = m.executors
       /\ heap' = m.heap
       /\ secrets' = m.secrets
       /\ persisted' = m.persisted
       /\ calls' = m.calls
       /\ last' = m.last
       /\ got' = m.got
       /\ upd' = m.upd
       /\ held' = m.held
       /\ cmd' = cmd
       /\ svc' = svc
       /\ conf' = conf
       /\ active' = m.active

(***************************************************************************)
(* new ConnectionManager(context): initializeLocalConnection, then         *)
(* loadConnections.                                                        *)
(***************************************************************************)
InitialExecutors == [id \in RegistryIds |-> IF id = LOCAL_CONNECTION_ID THEN 1 ELSE NoExecutor]

InitialHeap == [ex \in 1..MaxExecutors |-> IF ex = 1 THEN LocalExecutor ELSE Free]

NoSecrets == [k \in {} |-> Undefined]

\* No delete command of the tree view is running.
NoCommand == [pc |-> "idle", kind |-> "", targets |-> << >>, queue |-> << >>,
              issued |-> << >>, failed |-> FALSE]

\* A session that is absent: the null that createSession returns.
NoSession == [absent |-> "session"]

\* The arguments of a TmuxService operation: session name, window index,
\* the optional or new name, the pane or split target.
TmuxArgs(session, window, name, target) ==
    [session |-> session, window |-> window, name |-> name, target |-> target]

\* No TmuxService operation is in progress.  Of an operation: op and args
\* as called, pc the await it is suspended at, issued the commands it has
\* passed to connectionManager.execute, exit the exit code of its own
\* command, status how it settled ("ok", "failed": it threw its own error,
\* "rejected": execute rejected), message the message of the error it
\* threw (cause: what execute rejected with, which the operation rejects
\* with in turn), ret what it returned, input the lines tmux printed, at the
\* session and the window that the loops of getSessionTree have reached,
\* answers what each of its commands printed and exited with, result
\* what its own
\* command resolved with and listed what the list-sessions command of
\* createSession resolved with.
NoService == [op |-> "idle", pc |-> "idle", args |-> TmuxArgs(<< >>, 0, JsUndefined, << >>),
              issued |-> << >>, exit |-> JsUndefined, status |-> "",
              message |-> JsUndefined, ret |-> NoSession, result |-> NoResult,
              listed |-> NoResult, input |-> << >>, cause |-> "", at |-> <<0, 0>>,
              answers |-> << >>]

\* A file: whether it exists, whether the user may write it (create it,
\* when it does not exist), its lines, and whether the last line lacks its
\* newline.
File(exists, writable, lines, open) ==
    [exists |-> exists, writable |-> writable, lines |-> lines, open |-> open]

\* ~/.tmux.conf as it is (file) and as it was when the present run of
\* enableMouseMode calls began (base): at the start, and after the last
\* disableMouseMode.
Conf(file) == [file |-> file, base |-> file]

\* No ~/.tmux.conf, in a home directory that can be written.
NoConf == Conf(File(FALSE, TRUE, << >>, FALSE))

\* The registry a constructor call builds over a persisted list and a secret
\* store, used by the given number of callers.
NewConnectionManager(saved, stored, callers) ==
    [connections |-> LoadInto(<<LocalConnection>>, saved),
     executors |-> InitialExecutors,
     heap |-> InitialHeap,
     secrets |-> stored,
     persisted |-> saved,
     calls |-> [c \in 1..callers |-> Idle],
     last |-> NoEvent,
     got |-> [id \in RegistryIds |-> NoExecutor],
     upd |-> [id \in RegistryIds |-> FALSE],
     held |-> {},
     active |-> TRUE]

InitWith(callers) ==
    LET n == NewConnectionManager(<< >>, NoSecrets, callers)
    IN /\ connections = n.connections
       /\ executors = n.executors
       /\ heap = n.heap
       /\ secrets = n.secrets
       /\ persisted = n.persisted
       /\ calls = n.calls
       /\ last = n.last
       /\ got = n.got
       /\ upd = n.upd
       /\ held = n.held
       /\ cmd = NoCommand
       /\ svc = NoService
       /\ conf = NoConf
       /\ active = n.active

\* One caller: every call is awaited before the next is made.
Init == InitWith(1)

\* Callers whose calls overlap.
InitAsync == InitWith(MaxCalls)

(***************************************************************************)
(* addSSHConnection(config)                                                *)
(***************************************************************************)
\* connections.set(connection.id, connection); saveConnections(); return.
\* n is the state the call has reached.
AddFinish(n, config) ==
    LET conns == MapSet(n.connections, SSHConnection(config))
    IN [n EXCEPT !.connections = conns,
                 !.persisted = SafeConnections(conns),
                 !.upd = [n.upd EXCEPT ![config.id] = FALSE],
                 !.calls = VoidUpd(n.calls, config.id),
                 !.last = [Event("add", config.id, "ok") EXCEPT !.config = config]]

\* A config without password and passphrase: no await, the call runs to its end.
AddSSHConnectionSync(config) ==
    /\ HasFreeCaller
    /\ ~Truthy(config.password) /\ ~Truthy(config.passphrase)
    /\ Commit(AddFinish(Cur, config))

\* The call reaches its first await secrets.store(...).
AddSSHConnectionStart(config) ==
    /\ HasFreeCaller
    /\ Truthy(config.password) \/ Truthy(config.passphrase)
    /\ Commit([Cur EXCEPT !.calls[FreeCaller] =
                  [Idle EXCEPT !.op = "add", !.id = config.id, !.config = config,
                               !.pc = IF Truthy(config.password)
                                      THEN "storePassword" ELSE "storePassphrase"]])

\* await secrets.store(PASSWORD_PREFIX + config.id, config.password)
AddStorePassword(c) ==
    /\ Suspended(c, "add", "storePassword")
    /\ LET config == calls[c].config
           stored == [Cur EXCEPT
                        !.secrets = SecretsStore(secrets, PasswordKey(config.id), config.password)]
       IN IF Truthy(config.passphrase)
          THEN Commit([stored EXCEPT !.calls[c].pc = "storePassphrase"])
          ELSE Commit(AddFinish([stored EXCEPT !.calls[c] = Idle], config))

\* await secrets.store(PASSPHRASE_PREFIX + config.id, config.passphrase)
AddStorePassphrase(c) ==
    /\ Suspended(c, "add", "storePassphrase")
    /\ LET config == calls[c].config
           stored == [Cur EXCEPT
                        !.secrets = SecretsStore(secrets, PassphraseKey(config.id), config.passphrase)]
       IN Commit(AddFinish([stored EXCEPT !.calls[c] = Idle], config))

(***************************************************************************)
(* updateSSHConnection(config): no await, one step.                        *)
(***************************************************************************)
\* if (!existing || existing.type !== 'ssh') throw new Error('连接不存在')
UpdateNotFound(config) ==
    /\ HasFreeCaller
    /\ ~IsRegisteredSSH(connections, config.id)
    /\ Commit([Cur EXCEPT !.last = Event("update", config.id, "notFound")])

\* The executor cache after "oldExecutor.dispose(); executors.delete(id)".
Evict(execs, id) == [execs EXCEPT ![id] = NoExecutor]

\* The heap after the cached executor of id, if any, was disposed.
DisposeCached(h, execs, id) ==
    IF execs[id] # NoExecutor THEN [h EXCEPT ![execs[id]] = ExecutorDispose(@)] ELSE h

UpdateSSHConnection(config) ==
    /\ HasFreeCaller
    /\ IsRegisteredSSH(connections, config.id)
    /\ LET conns == MapSet(connections, SSHConnection(config))
       IN Commit([Cur EXCEPT
                    !.heap = DisposeCached(heap, executors, config.id),
                    !.executors = Evict(executors, config.id),
                    !.connections = conns,
                    !.persisted = SafeConnections(conns),
                    !.got[config.id] = NoExecutor,
                    !.upd[config.id] = executors[config.id] # NoExecutor,
                    !.calls = VoidUpd(calls, config.id),
                    !.last = [Event("update", config.id, "ok") EXCEPT
                                 !.old = executors[config.id]]])

(***************************************************************************)
(* The command muxify.editConnection: the registered config is copied, the *)
(* host, port and username that the user enters are set in the copy, the   *)
(* name when one is entered, and updateSSHConnection is called with it.    *)
(* The secrets of the copy are those of the registered config.             *)
(***************************************************************************)
EditedEndpoints == { <<"h1", 22, "u1">>, <<"h2", 2222, "u2">> }

EditedNames == {Undefined, "box"}

EditConnection(id, endpoint, name) ==
    /\ IsRegisteredSSH(connections, id)
    /\ MapGet(connections, id).config # NoConfig
    /\ LET config == MapGet(connections, id).config
       IN UpdateSSHConnection([config EXCEPT
                                 !.host = endpoint[1],
                                 !.port = endpoint[2],
                                 !.username = endpoint[3],
                                 !.name = IF Truthy(name) THEN name ELSE @])

(***************************************************************************)
(* removeConnection(id)                                                    *)
(***************************************************************************)
\* A removeConnection without the guard for the local id.
IsLocalIdUnguarded(id) == FALSE

\* if (id === LOCAL_CONNECTION_ID) throw
IsLocalId(id) == id = LOCAL_CONNECTION_ID

RemoveLocal(id) ==
    /\ HasFreeCaller
    /\ IsLocalId(id)
    /\ Commit([Cur EXCEPT !.last = Event("remove", id, "protected")])

\* Dispose and evict the cached executor, then suspend at the first
\* await secrets.delete(...).
RemoveStart(id) ==
    /\ HasFreeCaller
    /\ ~IsLocalId(id)
    /\ Commit([Cur EXCEPT
                 !.heap = DisposeCached(heap, executors, id),
                 !.executors = Evict(executors, id),
                 !.got[id] = NoExecutor,
                 !.calls[FreeCaller] =
                    [Idle EXCEPT !.op = "remove", !.pc = "deletePassword", !.id = id,
                                 !.ex = executors[id],
                                 !.reg = IsRegisteredSSH(connections, id)]])

\* await secrets.delete(PASSWORD_PREFIX + id)
RemoveDeletePassword(c) ==
    /\ Suspended(c, "remove", "deletePassword")
    /\ Commit([Cur EXCEPT
                 !.secrets = SecretsDelete(secrets, PasswordKey(calls[c].id)),
                 !.calls[c].pc = "deletePassphrase"])

\* await secrets.delete(PASSPHRASE_PREFIX + id); connections.delete(id);
\* saveConnections()
RemoveDeletePassphrase(c) ==
    /\ Suspended(c, "remove", "deletePassphrase")
    /\ LET id == calls[c].id
           conns == MapDelete(connections, id)
       IN Commit([Cur EXCEPT
                    !.secrets = SecretsDelete(secrets, PassphraseKey(id)),
                    !.connections = conns,
                    !.persisted = SafeConnections(conns),
                    !.upd[id] = FALSE,
                    !.calls = [VoidUpd(calls, id) EXCEPT ![c] = Idle],
                    !.last = [Event("remove", id, "ok") EXCEPT
                                 !.old = calls[c].ex, !.reg = calls[c].reg]])

(***************************************************************************)
(* addSSHConnection and removeConnection over a Credential Store whose     *)
(* calls can reject (SpecStore).  The calls are as above, and remember the *)
(* state they were made in.                                                *)
(***************************************************************************)
\* addSSHConnection(config) up to its first await secrets.store(...)
AddSSHConnectionCall(config) ==
    /\ HasFreeCaller
    /\ Truthy(config.password) \/ Truthy(config.passphrase)
    /\ Commit([Cur EXCEPT !.calls[FreeCaller] =
                  [Idle EXCEPT !.op = "add", !.id = config.id, !.config = config,
                               !.pc = IF Truthy(config.password)
                                      THEN "storePassword" ELSE "storePassphrase",
                               !.before = Snapshot]])

\* await secrets.store(...) rejects: addSSHConnection rejects with the error
AddStoreRejects(c) ==
    /\ c \in DOMAIN calls
    /\ calls[c].op = "add" /\ calls[c].pc \in {"storePassword", "storePassphrase"}
    /\ Commit([Cur EXCEPT
                 !.calls[c] = Idle,
                 !.last = [Event("add", calls[c].id, "storeError") EXCEPT
                              !.config = calls[c].config, !.before = calls[c].before]])

\* removeConnection(id) up to its first await secrets.delete(...): the
\* cached executor is disposed and evicted before it.
RemoveConnectionCall(id) ==
    /\ HasFreeCaller
    /\ ~IsLocalId(id)
    /\ Commit([Cur EXCEPT
                 !.heap = DisposeCached(heap, executors, id),
                 !.executors = Evict(executors, id),
                 !.got[id] = NoExecutor,
                 !.calls[FreeCaller] =
                    [Idle EXCEPT !.op = "remove", !.pc = "deletePassword", !.id = id,
                                 !.ex = executors[id],
                                 !.reg = IsRegisteredSSH(connections, id),
                                 !.before = Snapshot]])

\* await secrets.delete(...) rejects: removeConnection rejects with the error
RemoveDeleteRejects(c) ==
    /\ c \in DOMAIN calls
    /\ calls[c].op = "remove" /\ calls[c].pc \in {"deletePassword", "deletePassphrase"}
    /\ Commit([Cur EXCEPT
                 !.calls[c] = Idle,
                 !.last = [Event("remove", calls[c].id, "storeError") EXCEPT
                              !.old = calls[c].ex, !.reg = calls[c].reg,
                              !.before = calls[c].before]])

(***************************************************************************)
(* getExecutor(connectionId), called by a caller (op "getExecutor") or by  *)
(* ConnectionManager.execute (op "execute", "test").                       *)
(***************************************************************************)
\* The methods that run a command through the registry:
\* ConnectionManager.execute and testConnection, which calls it.
ExecuteOps == {"execute", "test"}

\* A registry that resumes a call only while no other call is pending.
InGetExecutorAlone(c, pc) ==
    /\ c \in DOMAIN calls
    /\ calls[c].op \in {"getExecutor"} \cup ExecuteOps
    /\ calls[c].pc = pc
    /\ \A other \in DOMAIN calls : other # c => calls[other].op = "idle"

\* Caller c is suspended inside getExecutor at the await pc.
InGetExecutor(c, pc) ==
    /\ c \in DOMAIN calls
    /\ calls[c].op \in {"getExecutor"} \cup ExecuteOps
    /\ calls[c].pc = pc

\* The extension is active and a caller is free to make the call.  The
\* callers run one command per connection at a time: each awaits its
\* execute before it issues the next on the same connection.
MayCall(op, id) ==
    /\ active
    /\ HasFreeCaller
    /\ op \in ExecuteOps
          => \A c \in DOMAIN calls : ~(calls[c].op \in ExecuteOps /\ calls[c].id = id)

\* A testConnection that reports success whatever the result.
TestConnectionResultAlways(result) == TRUE

\* return result.exitCode === 0
TestConnectionResult(result) == result.exitCode = JsNumber(0)

\* The execution of caller c ends with cause ("ok": it resolved with
\* result): execute and an executor's execute settle with it, testConnection
\* returns result.exitCode === 0 or, from its catch, false.
ExecuteSettles(n, c, call, cause, result, code) ==
    [n EXCEPT
       !.calls[c] = Idle,
       !.last = [Event(call.op, call.id, IF call.op = "test" THEN "ok" ELSE cause) EXCEPT
                    !.cause = cause, !.result = result, !.code = code, !.ret = call.ex,
                    !.did = call.did, !.was = call.was, !.arrived = call.arrived,
                    !.value = (call.op = "test" /\ cause = "ok" /\ TestConnectionResult(result))]]

\* getExecutor settles with the event ev: a caller's getExecutor call ends;
\* "const executor = await this.getExecutor(connectionId)" of execute
\* receives the executor, or execute rejects with getExecutor's error.
GetExecutorReturns(n, c, call, ev) ==
    IF call.op = "getExecutor"
    THEN [n EXCEPT !.calls[c] = Idle, !.last = ev]
    ELSE IF ev.status = "ok"
    THEN [n EXCEPT !.calls[c] = [call EXCEPT !.pc = "gotExecutor", !.ex = ev.ret,
                                             !.config = NoConfig]]
    ELSE ExecuteSettles(n, c, [call EXCEPT !.ex = NoExecutor], ev.status, NoResult, JsUndefined)

NewGetExecutorCall(op, id) == [Idle EXCEPT !.op = op, !.id = id, !.upd = upd[id]]

\* The first successful getExecutor since the last eviction is remembered.
Remember(g, id, ex) == IF g[id] = NoExecutor THEN [g EXCEPT ![id] = ex] ELSE g

\* const existing = this.executors.get(connectionId); if (existing) return existing
GetExecutorCached(op, id) ==
    /\ MayCall(op, id)
    /\ executors[id] # NoExecutor
    /\ Commit(GetExecutorReturns([Cur EXCEPT !.got = Remember(got, id, executors[id]),
                                             !.upd[id] = FALSE],
                                 FreeCaller, NewGetExecutorCall(op, id),
                                 [Event("getExecutor", id, "ok") EXCEPT
                                     !.ret = executors[id], !.upd = upd[id]]))

\* if (!connection) throw new Error(`连接不存在: ${connectionId}`)
GetExecutorNotFound(op, id) ==
    /\ MayCall(op, id)
    /\ executors[id] = NoExecutor
    /\ ~MapHas(connections, id)
    /\ Commit(GetExecutorReturns([Cur EXCEPT !.upd[id] = FALSE],
                                 FreeCaller, NewGetExecutorCall(op, id),
                                 Event("getExecutor", id, "notFound")))

\* if (connection.type === 'local') { new LocalExecutor(); executors.set; return }
GetExecutorLocal(op, id) ==
    /\ MayCall(op, id)
    /\ executors[id] = NoExecutor
    /\ MapHas(connections, id) /\ MapGet(connections, id).type = "local"
    /\ HasFreeExecutor
    /\ Commit(GetExecutorReturns([Cur EXCEPT !.heap[NewExecutor] = LocalExecutor,
                                             !.executors[id] = NewExecutor,
                                             !.got = Remember(got, id, NewExecutor),
                                             !.upd[id] = FALSE],
                                 FreeCaller, NewGetExecutorCall(op, id),
                                 [Event("getExecutor", id, "ok") EXCEPT
                                     !.ret = NewExecutor, !.made = TRUE, !.upd = upd[id]]))

\* A test that asks for the stored password whatever the config holds.
NeedsStoredPasswordAlways(config) == config.authType = "password"

\* config.authType === 'password' && !config.password
NeedsStoredPassword(config) == config.authType = "password" /\ ~Truthy(config.password)

\* config.authType === 'privateKey' && !config.passphrase
NeedsStoredPassphrase(config) == config.authType = "privateKey" /\ ~Truthy(config.passphrase)

\* if (storedPassword) config.password = storedPassword
WithStoredPassword(config, stored) ==
    IF Truthy(stored) THEN [config EXCEPT !.password = stored] ELSE config

\* if (storedPassphrase) config.passphrase = storedPassphrase
WithStoredPassphrase(config, stored) ==
    IF Truthy(stored) THEN [config EXCEPT !.passphrase = stored] ELSE config

\* The config that getExecutor constructs the executor of an ssh id with,
\* over the connections conns and the Credential Store stored.
ExecutorConfig(conns, stored, id) ==
    LET config == MapGet(conns, id).config
        withPassword == IF NeedsStoredPassword(config)
                        THEN WithStoredPassword(config, SecretsGet(stored, PasswordKey(id)))
                        ELSE config
    IN IF NeedsStoredPassphrase(withPassword)
       THEN WithStoredPassphrase(withPassword, SecretsGet(stored, PassphraseKey(id)))
       ELSE withPassword

\* const executor = new SSHExecutor(config); await executor.connect():
\* connect() runs up to client.connect(connectConfig), or rejects at once when
\* the private key file cannot be read, and then getExecutor rejects.
\* n is the state the call has reached, call the locals of caller c.
ConstructAndConnect(n, c, call, config, keyReadable) ==
    IF config.authType = "privateKey" /\ ~keyReadable
    THEN GetExecutorReturns(
            [n EXCEPT !.heap[NewExecutor] = [SSHExecutor(config) EXCEPT !.client = "idle"]],
            c, call,
            [Event("getExecutor", call.id, "keyError") EXCEPT !.upd = call.upd, !.made = TRUE])
    ELSE [n EXCEPT
            !.heap[NewExecutor] = [SSHExecutor(config) EXCEPT !.client = "connecting"],
            !.calls[c] = [call EXCEPT !.pc = "connect", !.config = config, !.ex = NewExecutor]]

\* The call of an uncached ssh id, up to its first await.
GetExecutorSSH(op, id, keyReadable) ==
    /\ MayCall(op, id)
    /\ executors[id] = NoExecutor
    /\ MapHas(connections, id)
    /\ MapGet(connections, id).type = "ssh" /\ MapGet(connections, id).config # NoConfig
    /\ LET config == MapGet(connections, id).config
           n == [Cur EXCEPT !.upd[id] = FALSE]
       IN IF NeedsStoredPassword(config)
          THEN /\ keyReadable
               /\ Commit([n EXCEPT !.calls[FreeCaller] =
                            [NewGetExecutorCall(op, id) EXCEPT !.pc = "getPassword",
                                                               !.config = config]])
          ELSE IF NeedsStoredPassphrase(config)
          THEN /\ keyReadable
               /\ Commit([n EXCEPT !.calls[FreeCaller] =
                            [NewGetExecutorCall(op, id) EXCEPT !.pc = "getPassphrase",
                                                               !.config = config]])
          ELSE /\ HasFreeExecutor
               /\ config.authType = "privateKey" \/ keyReadable
               /\ Commit(ConstructAndConnect(n, FreeCaller, NewGetExecutorCall(op, id), config,
                                             keyReadable))

\* const storedPassword = await this.getStoredPassword(connectionId)
GetStoredPassword(c) ==
    /\ InGetExecutor(c, "getPassword")
    /\ HasFreeExecutor
    /\ LET config == WithStoredPassword(calls[c].config,
                                        SecretsGet(secrets, PasswordKey(calls[c].id)))
       IN Commit(ConstructAndConnect(Cur, c, calls[c], config, TRUE))

\* const storedPassphrase = await this.getStoredPassphrase(connectionId)
GetStoredPassphrase(c, keyReadable) ==
    /\ InGetExecutor(c, "getPassphrase")
    /\ HasFreeExecutor
    /\ LET config == WithStoredPassphrase(calls[c].config,
                                          SecretsGet(secrets, PassphraseKey(calls[c].id)))
       IN Commit(ConstructAndConnect(Cur, c, calls[c], config, keyReadable))

\* client 'ready': connected = true, connect() resolves;
\* this.executors.set(connectionId, executor); return executor
ConnectReady(c) ==
    /\ InGetExecutor(c, "connect")
    /\ LET id == calls[c].id
           ex == calls[c].ex
       IN Commit(GetExecutorReturns(
                    [Cur EXCEPT !.heap[ex] = [@ EXCEPT !.client = "ready", !.connected = TRUE],
                                !.executors[id] = ex,
                                !.got = Remember(got, id, ex)],
                    c, calls[c],
                    [Event("getExecutor", id, "ok") EXCEPT
                        !.ret = ex, !.upd = calls[c].upd, !.made = TRUE]))

\* client 'error': connected = false, connect() rejects, getExecutor rejects
ConnectError(c) ==
    /\ InGetExecutor(c, "connect")
    /\ Commit(GetExecutorReturns(
                 [Cur EXCEPT !.heap[calls[c].ex] = [@ EXCEPT !.client = "error",
                                                             !.connected = FALSE]],
                 c, calls[c],
                 [Event("getExecutor", calls[c].id, "connectError") EXCEPT
                     !.upd = calls[c].upd, !.made = TRUE]))

\* A 'close' handler that leaves the connected flag.
ServerCloseKeepsFlag(ex) ==
    /\ heap[ex].kind = "ssh" /\ heap[ex].client = "ready"
    /\ Commit([Cur EXCEPT !.heap[ex] = [@ EXCEPT !.client = "closed"]])

\* client 'close' on an established transport: connected = false
ServerClose(ex) ==
    /\ heap[ex].kind = "ssh" /\ heap[ex].client = "ready"
    /\ Commit([Cur EXCEPT !.heap[ex] = [@ EXCEPT !.client = "closed", !.connected = FALSE]])

(***************************************************************************)
(* executor.execute(command): the continuation of ConnectionManager.execute *)
(* after getExecutor, or a call on an executor the caller holds.           *)
(***************************************************************************)
\* if (!this.connected || !this.client)
NeedsConnect(e) == ~e.connected \/ e.client = "null"

\* What the commands write: nothing, or a line with surrounding whitespace.
Outputs == { << >>, <<" ", "x", "\n">> }

\* The close codes of a remote command (code: number).
ExitCodes == {JsNumber(0), JsNumber(1)}

\* The errors execAsync rejects with: a command that exited non-zero
\* (code a number, stdout and stderr captured), that was killed (no code),
\* or that could not be launched (code a string, nothing captured).
LocalErrors ==
    {[stdout |-> so, stderr |-> se, code |-> co] :
        so \in {JsUndefined, JsString(<<" ", "x", "\n">>)},
        se \in {JsUndefined, JsString(<<" ">>), JsString(<<"x", "\n">>)},
        co \in {JsUndefined, JsNumber(2), JsString(<<"E", "N", "O", "E", "N", "T">>)}}

\* String(error) of an Error object: "Error: <message>".
ErrorText == JsString(<<"E", "r", "r", "o", "r", ":", " ", "m">>)

\* An exitCode of the catch branch that falls back to 0.
LocalExitCodeOrZero(code) == JsOr(code, JsNumber(0))

\* exitCode: err.code || 1
LocalExitCode(code) == JsOr(code, JsNumber(1))

\* LocalExecutor.execute, try branch.
LocalResult(stdout, stderr) ==
    CommandResult(JsString(Trim(stdout)), JsString(Trim(stderr)), JsNumber(0))

\* LocalExecutor.execute, catch branch.
LocalErrorResult(err) ==
    CommandResult(JsOr(OptionalTrim(err.stdout), JsString(<< >>)),
                  JsOr(OptionalTrim(err.stderr), ErrorText),
                  LocalExitCode(err.code))

\* SSHExecutor.execute, stream.on('close', (code) => resolve({...}))
StreamResult(stdout, stderr, code) ==
    CommandResult(JsString(Trim(stdout)), JsString(Trim(stderr)), JsOr(code, JsNumber(0)))

\* executor.execute(command) up to its first await.  A LocalExecutor hands
\* the command to execAsync.  An SSHExecutor that is not connected calls
\* connect(): a new Client replaces the old one, the key file is read for a
\* private-key config and client.connect() is called, or connect() and with
\* it execute reject when the key file cannot be read; a connected one
\* hands the command to client.exec.
ExecutorExecute(c, keyReadable) ==
    /\ c \in DOMAIN calls
    /\ calls[c].pc = "gotExecutor"
    /\ LET ex == calls[c].ex
           e == heap[ex]
           call == [calls[c] EXCEPT !.was = e.client]
       IN IF e.kind = "local"
          THEN /\ keyReadable
               /\ Commit([Cur EXCEPT !.calls[c] = [call EXCEPT !.pc = "local",
                                                               !.did = <<"exec">>]])
          ELSE IF NeedsConnect(e)
          THEN IF e.config.authType = "privateKey" /\ ~keyReadable
               THEN Commit(ExecuteSettles([Cur EXCEPT !.heap[ex].client = "idle"], c,
                                          [call EXCEPT !.did = <<"connect">>],
                                          "keyError", NoResult, JsUndefined))
               ELSE /\ e.config.authType = "privateKey" \/ keyReadable
                    /\ Commit([Cur EXCEPT !.heap[ex].client = "connecting",
                                          !.calls[c] = [call EXCEPT !.pc = "reconnect",
                                                                    !.did = <<"connect">>]])
          ELSE /\ keyReadable
               /\ Commit([Cur EXCEPT !.calls[c] = [call EXCEPT !.pc = "exec",
                                                               !.did = <<"exec">>]])

\* client 'ready' during execute's connect: connected = true, connect()
\* resolves and execute hands the command to client.exec.
ReconnectReady(c) ==
    /\ c \in DOMAIN calls
    /\ calls[c].pc = "reconnect"
    /\ heap[calls[c].ex].client = "connecting"
    /\ Commit([Cur EXCEPT
                 !.heap[calls[c].ex] = [@ EXCEPT !.client = "ready", !.connected = TRUE],
                 !.calls[c] = [@ EXCEPT !.pc = "exec", !.did = Append(@, "exec")]])

\* A connect failure that execute swallows: the command is handed to
\* client.exec all the same.
ReconnectErrorSendsCommand(c) ==
    /\ c \in DOMAIN calls
    /\ calls[c].pc = "reconnect"
    /\ heap[calls[c].ex].client = "connecting"
    /\ Commit([Cur EXCEPT
                 !.heap[calls[c].ex] = [@ EXCEPT !.client = "error", !.connected = FALSE],
                 !.calls[c] = [@ EXCEPT !.pc = "exec", !.did = Append(@, "exec")]])

\* client 'error' during execute's connect: connected = false, connect()
\* rejects and execute rejects with the error.
ReconnectError(c) ==
    /\ c \in DOMAIN calls
    /\ calls[c].pc = "reconnect"
    /\ heap[calls[c].ex].client = "connecting"
    /\ Commit(ExecuteSettles(
                 [Cur EXCEPT !.heap[calls[c].ex] = [@ EXCEPT !.client = "error",
                                                             !.connected = FALSE]],
                 c, calls[c], "connectError", NoResult, JsUndefined))

\* client.exec calls back with err: reject(err)
ExecError(c) ==
    /\ c \in DOMAIN calls
    /\ calls[c].pc = "exec"
    /\ Commit(ExecuteSettles(Cur, c, calls[c], "execError", NoResult, JsUndefined))

\* stream 'close' with the exit code, after the data of stdout and stderr
StreamClose(c, code, stdout, stderr) ==
    /\ c \in DOMAIN calls
    /\ calls[c].pc = "exec"
    /\ Commit(ExecuteSettles(Cur, c, calls[c], "ok", StreamResult(stdout, stderr, code), code))

\* What the stream of a remote command emits with 'close': the exit status
\* of the command, or null when the command was ended by a signal.
CloseCodes == ExitCodes \cup {JsNull}

\* The chunks a stream emits.
Chunks == { <<" ", "x">>, <<"y", "\n">> }

\* client.exec calls back with the stream: let stdout = ''; let stderr = '';
\* and the handlers of 'data' and 'close' are set.
ExecStream(c) ==
    /\ c \in DOMAIN calls
    /\ calls[c].pc = "exec"
    /\ Commit([Cur EXCEPT !.calls[c] = [@ EXCEPT !.pc = "stream", !.stdout = << >>,
                                                 !.stderr = << >>]])

\* stream.on('data', (data) => { stdout += data.toString() })
StreamData(c, chunk) ==
    /\ c \in DOMAIN calls
    /\ calls[c].pc = "stream"
    /\ Len(calls[c].arrived) < MaxChunks
    /\ Commit([Cur EXCEPT !.calls[c] = [@ EXCEPT !.stdout = @ \o chunk,
                                                 !.arrived = Append(@, <<"data", chunk>>)]])

\* stream.stderr.on('data', (data) => { stderr += data.toString() })
StreamStderrData(c, chunk) ==
    /\ c \in DOMAIN calls
    /\ calls[c].pc = "stream"
    /\ Len(calls[c].arrived) < MaxChunks
    /\ Commit([Cur EXCEPT !.calls[c] = [@ EXCEPT !.stderr = @ \o chunk,
                                                 !.arrived = Append(@, <<"stderr", chunk>>)]])

\* stream.on('close', (code) => resolve({...})) with what the handlers built
StreamCloseEvent(c, code) ==
    /\ c \in DOMAIN calls
    /\ calls[c].pc = "stream"
    /\ Commit(ExecuteSettles(Cur, c, calls[c], "ok",
                             StreamResult(calls[c].stdout, calls[c].stderr, code), code))

\* execAsync resolves: the command exited with code 0
LocalResolve(c, stdout, stderr) ==
    /\ c \in DOMAIN calls
    /\ calls[c].pc = "local"
    /\ Commit(ExecuteSettles(Cur, c, calls[c], "ok", LocalResult(stdout, stderr), JsNumber(0)))

\* execAsync rejects with err
LocalReject(c, err) ==
    /\ c \in DOMAIN calls
    /\ calls[c].pc = "local"
    /\ Commit(ExecuteSettles(Cur, c, calls[c], "ok", LocalErrorResult(err), err.code))

\* A caller that holds the executor ex calls ex.execute(command).  It
\* awaits each execute before it calls the next on the same executor.
ExecutorExecuteCall(ex) ==
    /\ HasFreeCaller
    /\ ex \in held
    /\ \A c \in DOMAIN calls : calls[c].ex # ex
    /\ Commit([Cur EXCEPT !.calls[FreeCaller] =
                 [Idle EXCEPT !.op = "exec", !.pc = "gotExecutor", !.ex = ex]])

\* A caller that holds the executor ex calls ex.dispose().
ExecutorDisposeCall(ex) ==
    /\ ex \in held
    /\ Commit([Cur EXCEPT
                 !.heap[ex] = ExecutorDispose(@),
                 !.last = [Event("executorDispose", "", "ok") EXCEPT
                              !.ret = ex, !.was = heap[ex].client]])

(***************************************************************************)
(* dispose(): every cached executor is disposed, the cache cleared.        *)
(***************************************************************************)
Cached(execs) == {execs[id] : id \in DOMAIN execs} \ {NoExecutor}

Dispose ==
    /\ HasFreeCaller
    /\ Commit([Cur EXCEPT
                 !.heap = [ex \in DOMAIN heap |->
                             IF ex \in Cached(executors) THEN ExecutorDispose(heap[ex])
                             ELSE heap[ex]],
                 !.executors = [id \in DOMAIN executors |-> NoExecutor],
                 !.got = [id \in DOMAIN got |-> NoExecutor],
                 !.last = Event("dispose", "", "ok")])

(***************************************************************************)
(* deactivate(): the tree view and the status bar are disposed, which ends *)
(* their refreshes, and connectionManager.dispose() is called; the calls   *)
(* that are pending go on.                                                 *)
(***************************************************************************)
Deactivate ==
    /\ active
    /\ Commit([Cur EXCEPT
                 !.heap = [ex \in DOMAIN heap |->
                             IF ex \in Cached(executors) THEN ExecutorDispose(heap[ex])
                             ELSE heap[ex]],
                 !.executors = [id \in DOMAIN executors |-> NoExecutor],
                 !.got = [id \in DOMAIN got |-> NoExecutor],
                 !.active = FALSE,
                 !.last = Event("dispose", "", "ok")])

(***************************************************************************)
(* The extension host restarts: a new ConnectionManager is constructed     *)
(* over the persisted list and the secret store.                           *)
(***************************************************************************)
Restart ==
    /\ AllIdle
    /\ Commit([NewConnectionManager(persisted, secrets, Len(calls)) EXCEPT
                 !.last = Event("restart", "", "ok")])

(***************************************************************************)
(* Spec: one caller, every config and id, the server side closing          *)
(* transports, restarts.                                                   *)
(***************************************************************************)
Next ==
    \/ \E config \in InputConfigs :
          \/ AddSSHConnectionSync(config)
          \/ AddSSHConnectionStart(config)
          \/ UpdateNotFound(config)
          \/ UpdateSSHConnection(config)
    \/ \E id \in ConnectionIds :
          \/ RemoveLocal(id)
          \/ RemoveStart(id)
          \/ GetExecutorCached("getExecutor", id)
          \/ GetExecutorNotFound("getExecutor", id)
          \/ GetExecutorLocal("getExecutor", id)
          \/ \E keyReadable \in BOOLEAN : GetExecutorSSH("getExecutor", id, keyReadable)
    \/ \E c \in 1..MaxCalls :
          \/ AddStorePassword(c)
          \/ AddStorePassphrase(c)
          \/ RemoveDeletePassword(c)
          \/ RemoveDeletePassphrase(c)
          \/ GetStoredPassword(c)
          \/ \E keyReadable \in BOOLEAN : GetStoredPassphrase(c, keyReadable)
          \/ ConnectReady(c)
          \/ ConnectError(c)
    \/ \E ex \in 1..MaxExecutors : ServerClose(ex)
    \/ Dispose
    \/ Restart

Spec == Init /\ [][Next]_vars

(***************************************************************************)
(* SpecAsync: MaxCalls callers whose calls overlap at their awaits, on one *)
(* ssh connection with password authentication.                            *)
(***************************************************************************)
AsyncConfigs ==
    {config \in InputConfigs : config.id # LOCAL_CONNECTION_ID /\ config.authType = "password"}

NextAsync ==
    \/ \E config \in AsyncConfigs :
          \/ AddSSHConnectionStart(config)
          \/ UpdateNotFound(config)
          \/ UpdateSSHConnection(config)
    \/ \E id \in ConnectionIds :
          \/ RemoveLocal(id)
          \/ RemoveStart(id)
          \/ GetExecutorCached("getExecutor", id)
          \/ GetExecutorNotFound("getExecutor", id)
          \/ GetExecutorLocal("getExecutor", id)
          \/ GetExecutorSSH("getExecutor", id, TRUE)
    \/ \E c \in 1..MaxCalls :
          \/ AddStorePassword(c)
          \/ RemoveDeletePassword(c)
          \/ RemoveDeletePassphrase(c)
          \/ ConnectReady(c)
          \/ ConnectError(c)
    \/ Dispose

SpecAsync == InitAsync /\ [][NextAsync]_vars

(***************************************************************************)
(* SpecPersist: one caller adds, updates and removes two ssh connections   *)
(* and the extension host restarts; no executor is asked for.              *)
(***************************************************************************)
PersistConfigs ==
    { SSHConnectionConfig("ssh-1", Undefined, "h1", 22, "u1", "password", "pw1", Undefined),
      SSHConnectionConfig("ssh-1", "box", "h2", 2222, "u2", "password", Undefined, Undefined),
      SSHConnectionConfig("ssh-2", Undefined, "h2", 2222, "u2", "privateKey", Undefined, "pp1"),
      SSHConnectionConfig(LOCAL_CONNECTION_ID, Undefined, "h1", 22, "u1", "privateKey", Undefined, Undefined) }

NextPersist ==
    \/ \E config \in PersistConfigs :
          \/ AddSSHConnectionSync(config)
          \/ AddSSHConnectionStart(config)
          \/ UpdateNotFound(config)
          \/ UpdateSSHConnection(config)
    \/ \E id \in RegistryIds :
          \/ RemoveLocal(id)
          \/ RemoveStart(id)
    \/ \E c \in 1..MaxCalls :
          \/ AddStorePassword(c)
          \/ AddStorePassphrase(c)
          \/ RemoveDeletePassword(c)
          \/ RemoveDeletePassphrase(c)
    \/ Restart

SpecPersist == Init /\ [][NextPersist]_vars

(***************************************************************************)
(* SpecExec: commands run through the registry.  The registry was          *)
(* constructed over the list and the secrets that an earlier               *)
(* addSSHConnection left, or over none; MaxCalls callers call execute and  *)
(* testConnection, each connection running one command at a time.          *)
(***************************************************************************)
\* The secret store after addSSHConnection(config).
StoredSecrets(config) ==
    LET withPassword == IF Truthy(config.password)
                        THEN SecretsStore(NoSecrets, PasswordKey(config.id), config.password)
                        ELSE NoSecrets
    IN IF Truthy(config.passphrase)
       THEN SecretsStore(withPassword, PassphraseKey(config.id), config.passphrase)
       ELSE withPassword

InitFrom(n) ==
    /\ connections = n.connections
    /\ executors = n.executors
    /\ heap = n.heap
    /\ secrets = n.secrets
    /\ persisted = n.persisted
    /\ calls = n.calls
    /\ last = n.last
    /\ got = n.got
    /\ upd = n.upd
    /\ held = n.held
    /\ cmd = NoCommand
    /\ svc = NoService
    /\ conf = NoConf
    /\ active = n.active

InitExec ==
    \/ InitFrom(NewConnectionManager(<< >>, NoSecrets, MaxCalls))
    \/ \E config \in {k \in InputConfigs : k.id # LOCAL_CONNECTION_ID} :
          InitFrom(NewConnectionManager(SafeConnections(<<SSHConnection(config)>>),
                                        StoredSecrets(config), MaxCalls))

\* What the probe command echo "test" writes.
ProbeOutput == <<"t", "e", "s", "t", "\n">>

\* The errors of a local command that captured no output.
ProbeErrors == {err \in LocalErrors : err.stdout = JsUndefined /\ err.stderr = JsUndefined}

NextExec ==
    \/ \E op \in ExecuteOps, id \in ConnectionIds :
          \/ GetExecutorCached(op, id)
          \/ GetExecutorNotFound(op, id)
          \/ GetExecutorLocal(op, id)
          \/ \E keyReadable \in BOOLEAN : GetExecutorSSH(op, id, keyReadable)
    \/ \E c \in 1..MaxCalls :
          \/ GetStoredPassword(c)
          \/ \E keyReadable \in BOOLEAN : GetStoredPassphrase(c, keyReadable)
          \/ ConnectReady(c)
          \/ ConnectError(c)
          \/ \E keyReadable \in BOOLEAN : ExecutorExecute(c, keyReadable)
          \/ ReconnectReady(c)
          \/ ReconnectError(c)
          \/ ExecError(c)
          \/ \E code \in ExitCodes : StreamClose(c, code, ProbeOutput, << >>)
          \/ LocalResolve(c, ProbeOutput, << >>)
          \/ \E err \in ProbeErrors : LocalReject(c, err)
    \/ \E ex \in 1..MaxExecutors : ServerClose(ex)
    \/ Dispose

SpecExec == InitExec /\ [][NextExec]_vars

(***************************************************************************)
(* SpecPair: the local and one ssh connection used at the same time, each  *)
(* by execute calls that follow one another.                               *)
(***************************************************************************)
InitPair ==
    \E config \in AsyncConfigs :
        InitFrom(NewConnectionManager(SafeConnections(<<SSHConnection(config)>>),
                                      StoredSecrets(config), MaxCalls))

NextPair ==
    \/ \E id \in ConnectionIds :
          \/ GetExecutorCached("execute", id)
          \/ GetExecutorSSH("execute", id, TRUE)
    \/ \E c \in 1..MaxCalls :
          \/ GetStoredPassword(c)
          \/ ConnectReady(c)
          \/ ConnectError(c)
          \/ ExecutorExecute(c, TRUE)
          \/ ReconnectReady(c)
          \/ ReconnectError(c)
          \/ ExecError(c)
          \/ \E code \in ExitCodes : StreamClose(c, code, ProbeOutput, << >>)
          \/ LocalResolve(c, ProbeOutput, << >>)
          \/ \E err \in ProbeErrors : LocalReject(c, err)
    \/ \E ex \in 1..MaxExecutors : ServerClose(ex)

SpecPair == InitPair /\ [][NextPair]_vars

(***************************************************************************)
(* SpecDeactivate: callers whose getExecutor calls overlap, over a         *)
(* registry that holds an ssh connection with password authentication,     *)
(* until the extension is deactivated; the pending calls then run to their *)
(* ends.                                                                   *)
(***************************************************************************)
InitDeactivate ==
    \E config \in AsyncConfigs :
        InitFrom(NewConnectionManager(SafeConnections(<<SSHConnection(config)>>),
                                      StoredSecrets(config), MaxCalls))

NextDeactivate ==
    \/ \E id \in ConnectionIds :
          \/ GetExecutorCached("getExecutor", id)
          \/ GetExecutorSSH("getExecutor", id, TRUE)
    \/ \E c \in 1..MaxCalls :
          \/ GetStoredPassword(c)
          \/ ConnectReady(c)
          \/ ConnectError(c)
    \/ \E ex \in 1..MaxExecutors : ServerClose(ex)
    \/ Deactivate

SpecDeactivate == InitDeactivate /\ [][NextDeactivate]_vars

(***************************************************************************)
(* SpecStore: one caller adds and removes ssh connections and asks for     *)
(* executors, over a Credential Store whose store and delete calls can     *)
(* reject; the extension host restarts.                                    *)
(***************************************************************************)
NextStore ==
    \/ \E config \in InputConfigs :
          \/ AddSSHConnectionSync(config)
          \/ AddSSHConnectionCall(config)
    \/ \E id \in ConnectionIds :
          \/ RemoveLocal(id)
          \/ RemoveConnectionCall(id)
          \/ GetExecutorCached("getExecutor", id)
          \/ \E keyReadable \in BOOLEAN : GetExecutorSSH("getExecutor", id, keyReadable)
    \/ \E c \in 1..MaxCalls :
          \/ AddStorePassword(c)
          \/ AddStorePassphrase(c)
          \/ AddStoreRejects(c)
          \/ RemoveDeletePassword(c)
          \/ RemoveDeletePassphrase(c)
          \/ RemoveDeleteRejects(c)
          \/ GetStoredPassword(c)
          \/ \E keyReadable \in BOOLEAN : GetStoredPassphrase(c, keyReadable)
          \/ ConnectReady(c)
          \/ ConnectError(c)
    \/ Restart

SpecStore == Init /\ [][NextStore]_vars

(***************************************************************************)
(* SpecEdit: one caller adds, edits and removes ssh connections and asks   *)
(* for executors; the extension host restarts.  Every update is one that   *)
(* muxify.editConnection makes.                                            *)
(***************************************************************************)
NextEdit ==
    \/ \E config \in InputConfigs :
          \/ AddSSHConnectionSync(config)
          \/ AddSSHConnectionStart(config)
    \/ \E id \in ConnectionIds :
          \/ \E endpoint \in EditedEndpoints, name \in EditedNames :
                EditConnection(id, endpoint, name)
          \/ RemoveStart(id)
          \/ GetExecutorCached("getExecutor", id)
          \/ \E keyReadable \in BOOLEAN : GetExecutorSSH("getExecutor", id, keyReadable)
    \/ \E c \in 1..MaxCalls :
          \/ AddStorePassword(c)
          \/ AddStorePassphrase(c)
          \/ RemoveDeletePassword(c)
          \/ RemoveDeletePassphrase(c)
          \/ GetStoredPassword(c)
          \/ \E keyReadable \in BOOLEAN : GetStoredPassphrase(c, keyReadable)
          \/ ConnectReady(c)
          \/ ConnectError(c)
    \/ Restart

SpecEdit == Init /\ [][NextEdit]_vars

(***************************************************************************)
(* SpecExecutor: the executor classes on their own.  A caller holds a      *)
(* LocalExecutor and an SSHExecutor it constructed, calls execute on them  *)
(* one call at a time and dispose at any time; the server side closes the  *)
(* transport.                                                              *)
(***************************************************************************)
ExecutorConfigs == {config \in InputConfigs : config.id # LOCAL_CONNECTION_ID}

InitExecutor ==
    \E config \in ExecutorConfigs :
        InitFrom([NewConnectionManager(<< >>, NoSecrets, 1) EXCEPT
                    !.heap[2] = SSHExecutor(config),
                    !.held = {1, 2}])

NextExecutor ==
    \/ \E ex \in 1..MaxExecutors :
          \/ ExecutorExecuteCall(ex)
          \/ ExecutorDisposeCall(ex)
          \/ ServerClose(ex)
    \/ \E c \in 1..MaxCalls :
          \/ \E keyReadable \in BOOLEAN : ExecutorExecute(c, keyReadable)
          \/ ReconnectReady(c)
          \/ ReconnectError(c)
          \/ ExecError(c)
          \/ \E code \in ExitCodes, stdout \in Outputs, stderr \in Outputs :
                StreamClose(c, code, stdout, stderr)
          \/ \E stdout \in Outputs, stderr \in Outputs : LocalResolve(c, stdout, stderr)
          \/ \E err \in LocalErrors : LocalReject(c, err)

SpecExecutor == InitExecutor /\ [][NextExecutor]_vars

(***************************************************************************)
(* SpecClients: an SSHExecutor that callers hold, with every Client it     *)
(* creates.  The execute calls overlap, dispose is called at any time, and *)
(* every Client emits its events whether the executor still refers to it   *)
(* or not.                                                                 *)
(***************************************************************************)
\* The state of client k of the executor: 0 the current one, k its k-th
\* stale one.
ClientState(e, k) ==
    IF k = 0 THEN e.client ELSE IF k <= Len(e.stale) THEN e.stale[k] ELSE "null"

SetClientState(e, k, state) ==
    IF k = 0 THEN [e EXCEPT !.client = state] ELSE [e EXCEPT !.stale[k] = state]

\* this.client is assigned or cleared: the Client it referred to, left in
\* the given state, is referred to no more.
Retire(e, state) ==
    IF e.client = "null" THEN e
    ELSE [e EXCEPT !.stale = Append(@, state), !.client = "null"]

\* The calls that await the connect of the current client of ex await the
\* same Client after it is retired.
Repoint(cs, ex, e) ==
    [c \in DOMAIN cs |->
        IF cs[c].pc = "connecting" /\ cs[c].ex = ex /\ cs[c].client = 0 /\ e.client # "null"
        THEN [cs[c] EXCEPT !.client = Len(e.stale) + 1] ELSE cs[c]]

\* The Clients of the executor that are open or being opened.
OpenClients(e) ==
    (IF e.client \in {"connecting", "ready"} THEN 1 ELSE 0)
       + Cardinality({k \in 1..Len(e.stale) : e.stale[k] \in {"connecting", "ready"}})

\* A caller calls ex.execute(command), up to its first await.  An executor
\* that is not connected calls connect(): this.client = new Client(), the
\* key file is read and client.connect() is called; a connected one hands
\* the command to this.client.exec.
ExecuteCall(ex, keyReadable) ==
    /\ HasFreeCaller
    /\ ex \in held
    /\ heap[ex].kind = "ssh"
    /\ LET e == heap[ex]
           call == [Idle EXCEPT !.op = "exec", !.ex = ex, !.was = e.client]
           n == [Cur EXCEPT !.calls = Repoint(calls, ex, e)]
       IN IF NeedsConnect(e)
          THEN /\ Len(e.stale) + (IF e.client = "null" THEN 0 ELSE 1) < MaxClients
               /\ IF e.config.authType = "privateKey" /\ ~keyReadable
                  THEN Commit(ExecuteSettles(
                                 [n EXCEPT !.heap[ex] = [Retire(e, e.client) EXCEPT
                                                           !.client = "idle"]],
                                 FreeCaller, [call EXCEPT !.did = <<"connect">>],
                                 "keyError", NoResult, JsUndefined))
                  ELSE /\ e.config.authType = "privateKey" \/ keyReadable
                       /\ Commit([n EXCEPT
                                    !.heap[ex] = [Retire(e, e.client) EXCEPT
                                                    !.client = "connecting"],
                                    !.calls[FreeCaller] =
                                        [call EXCEPT !.pc = "connecting",
                                                     !.did = <<"connect">>]])
          ELSE /\ keyReadable
               /\ Commit([n EXCEPT !.calls[FreeCaller] =
                            [call EXCEPT !.pc = "exec", !.did = <<"exec">>,
                                         !.sent = e.client]])

\* The call that awaits the connect of client k of ex, if there is one.
Awaiting(ex, k) ==
    {c \in DOMAIN calls : calls[c].pc = "connecting" /\ calls[c].ex = ex /\ calls[c].client = k}

\* Client k of ex emits 'ready': this.connected = true and resolve().  The
\* execute that awaits this connect goes on to this.client!.exec(command):
\* with no current client that throws and the call rejects, otherwise the
\* command is handed to the current client, whichever that is.
ClientReady(ex, k) ==
    /\ heap[ex].kind = "ssh"
    /\ ClientState(heap[ex], k) = "connecting"
    /\ LET e == [SetClientState(heap[ex], k, "ready") EXCEPT !.connected = TRUE]
           n == [Cur EXCEPT !.heap[ex] = e]
       IN IF Awaiting(ex, k) = {} THEN Commit(n)
          ELSE LET c == CHOOSE c \in Awaiting(ex, k) : TRUE
               IN IF e.client = "null"
                  THEN Commit(ExecuteSettles(n, c, calls[c], "typeError", NoResult,
                                             JsUndefined))
                  ELSE Commit([n EXCEPT !.calls[c] =
                                 [@ EXCEPT !.pc = "exec", !.did = Append(@, "exec"),
                                           !.sent = e.client]])

\* Client k of ex emits 'error': this.connected = false and reject(err);
\* the execute that awaits this connect rejects.
ClientError(ex, k) ==
    /\ heap[ex].kind = "ssh"
    /\ ClientState(heap[ex], k) \in {"connecting", "ready", "ended"}
    /\ LET e == [SetClientState(heap[ex], k, "error") EXCEPT !.connected = FALSE]
           n == [Cur EXCEPT !.heap[ex] = e]
       IN IF Awaiting(ex, k) = {} THEN Commit(n)
          ELSE LET c == CHOOSE c \in Awaiting(ex, k) : TRUE
               IN Commit(ExecuteSettles(n, c, calls[c], "connectError", NoResult,
                                        JsUndefined))

\* Client k of ex emits 'close': this.connected = false
ClientClose(ex, k) ==
    /\ heap[ex].kind = "ssh"
    /\ ClientState(heap[ex], k) \in {"ready", "error", "ended"}
    /\ Commit([Cur EXCEPT !.heap[ex] =
                 [SetClientState(heap[ex], k, "closed") EXCEPT !.connected = FALSE]])

\* A caller calls ex.dispose(): this.client.end(); this.client = null;
\* this.connected = false.  end() closes a Client that is open or being
\* opened.
DisposeCall(ex) ==
    /\ ex \in held
    /\ heap[ex].kind = "ssh"
    /\ heap[ex].client # "null"
    /\ LET e == heap[ex]
           ended == IF e.client \in {"connecting", "ready"} THEN "ended" ELSE e.client
       IN Commit([Cur EXCEPT
                    !.heap[ex] = [Retire(e, ended) EXCEPT !.connected = FALSE],
                    !.calls = Repoint(calls, ex, e),
                    !.last = [Event("executorDispose", "", "ok") EXCEPT
                                 !.ret = ex, !.was = e.client]])

InitClients ==
    \E config \in ExecutorConfigs :
        InitFrom([NewConnectionManager(<< >>, NoSecrets, MaxCalls) EXCEPT
                    !.heap[2] = SSHExecutor(config),
                    !.held = {2}])

NextClients ==
    \/ \E ex \in 1..MaxExecutors :
          \/ \E keyReadable \in BOOLEAN : ExecuteCall(ex, keyReadable)
          \/ DisposeCall(ex)
          \/ \E k \in 0..MaxClients :
                \/ ClientReady(ex, k)
                \/ ClientError(ex, k)
                \/ ClientClose(ex, k)
    \/ \E c \in 1..MaxCalls :
          \/ ExecError(c)
          \/ \E code \in ExitCodes : StreamClose(c, code, ProbeOutput, << >>)

SpecClients == InitClients /\ [][NextClients]_vars

(***************************************************************************)
(* SpecStream: an SSHExecutor that a caller holds, and the stream of each  *)
(* command chunk by chunk.  The caller calls execute one call at a time    *)
(* and dispose at any time; the server side closes the transport.          *)
(***************************************************************************)
InitStream ==
    \E config \in ExecutorConfigs :
        InitFrom([NewConnectionManager(<< >>, NoSecrets, 1) EXCEPT
                    !.heap[2] = SSHExecutor(config),
                    !.held = {2}])

NextStream ==
    \/ \E ex \in 1..MaxExecutors :
          \/ ExecutorExecuteCall(ex)
          \/ ExecutorDisposeCall(ex)
          \/ ServerClose(ex)
    \/ \E c \in 1..MaxCalls :
          \/ \E keyReadable \in BOOLEAN : ExecutorExecute(c, keyReadable)
          \/ ReconnectReady(c)
          \/ ReconnectError(c)
          \/ ExecError(c)
          \/ ExecStream(c)
          \/ \E chunk \in Chunks :
                \/ StreamData(c, chunk)
                \/ StreamStderrData(c, chunk)
          \/ \E code \in CloseCodes : StreamCloseEvent(c, code)

SpecStream == InitStream /\ [][NextStream]_vars

(***************************************************************************)
(* The delete commands of the tree view.  The view is created with         *)
(* canSelectMany, so a command invoked from it receives the clicked item   *)
(* and the list of selected items.  A pane id is tmux's "%<number>", held  *)
(* as its characters; a window is addressed by its index in the session.   *)
(***************************************************************************)
Digits == <<"0", "1", "2", "3", "4", "5", "6", "7", "8", "9">>

IsDigit(ch) == \E d \in 1..Len(Digits) : Digits[d] = ch

DigitValue(ch) == (CHOOSE d \in 1..Len(Digits) : Digits[d] = ch) - 1

\* The number the trailing digits of a pane id spell ("%10" is 10); 0 when
\* the id does not end in a digit.
RECURSIVE TrailingNumber(_)
TrailingNumber(id) ==
    IF id = << >> \/ ~IsDigit(id[Len(id)]) THEN 0
    ELSE 10 * TrailingNumber(SubSeq(id, 1, Len(id) - 1)) + DigitValue(id[Len(id)])

PaneIds == { <<"%", "1">>, <<"%", "2">>, <<"%", "3">>, <<"%", "1", "0">> }

WindowIndexes == 0..3

\* The positional index a target is addressed by.
TargetIndex(kind, target) == IF kind = "pane" THEN TrailingNumber(target) ELSE target

\* The same insertion in ascending order of the index.
RECURSIVE InsertAscending(_, _, _)
InsertAscending(kind, sorted, target) ==
    IF sorted = << >> THEN <<target>>
    ELSE IF TargetIndex(kind, target) < TargetIndex(kind, Head(sorted))
         THEN <<target>> \o sorted
         ELSE <<Head(sorted)>> \o InsertAscending(kind, Tail(sorted), target)

\* targets.sort((a, b) => index(b) - index(a))
RECURSIVE InsertDescending(_, _, _)
InsertDescending(kind, sorted, target) ==
    IF sorted = << >> THEN <<target>>
    ELSE IF TargetIndex(kind, target) > TargetIndex(kind, Head(sorted))
         THEN <<target>> \o sorted
         ELSE <<Head(sorted)>> \o InsertDescending(kind, Tail(sorted), target)

RECURSIVE SortDescending(_, _)
SortDescending(kind, targets) ==
    IF targets = << >> THEN << >>
    ELSE InsertDescending(kind, SortDescending(kind, SubSeq(targets, 1, Len(targets) - 1)),
                          targets[Len(targets)])

\* TmuxService.killPane / killWindow issue exactly one tmux command.
KillCommand(kind, target) ==
    [command |-> IF kind = "pane" THEN "kill-pane" ELSE "kill-window", target |-> target]

\* The selections a user can make: up to MaxBatch distinct siblings, in the
\* order they were clicked.
RECURSIVE Selections(_, _)
Selections(items, n) ==
    IF n = 0 THEN {<< >>}
    ELSE LET shorter == Selections(items, n - 1)
         IN shorter \cup {Append(sel, item) : sel \in {x \in shorter : Len(x) = n - 1},
                                              item \in items}

Distinct(sel) == \A i, j \in 1..Len(sel) : i # j => sel[i] # sel[j]

Range(sel) == {sel[i] : i \in 1..Len(sel)}

TreeItems(kind) == IF kind = "pane" THEN PaneIds ELSE WindowIndexes

\* The command is invoked on item with the view's selection: the batch is
\* the selection when the item is part of it, else the item alone.  The
\* handler awaits the confirmation dialog.
DeleteInvoke(kind, item, selection) ==
    /\ cmd.pc \in {"idle", "done"}
    /\ cmd' = [NoCommand EXCEPT !.pc = "confirm", !.kind = kind,
                                !.targets = IF item \in Range(selection)
                                            THEN selection ELSE <<item>>]
    /\ UNCHANGED <<connections, executors, heap, secrets, persisted, calls, last, got, upd, held, active,
                   svc, conf>>

\* if (confirm !== deleteBtn) return
DeleteCancel ==
    /\ cmd.pc = "confirm"
    /\ cmd' = [cmd EXCEPT !.pc = "done"]
    /\ UNCHANGED <<connections, executors, heap, secrets, persisted, calls, last, got, upd, held, active,
                   svc, conf>>

\* Confirmed: the targets are ordered for deletion.
DeleteConfirm ==
    /\ cmd.pc = "confirm"
    /\ cmd' = [cmd EXCEPT !.pc = "kill", !.queue = SortDescending(cmd.kind, cmd.targets)]
    /\ UNCHANGED <<connections, executors, heap, secrets, persisted, calls, last, got, upd, held, active,
                   svc, conf>>

\* await tmuxService.killPane(...) / killWindow(...) for the next target: the
\* command is issued; a non-zero exit code throws and ends the handler in
\* its catch.
DeleteNext(exitCode) ==
    /\ cmd.pc = "kill"
    /\ cmd.queue # << >>
    /\ cmd' = [cmd EXCEPT !.issued = Append(@, KillCommand(cmd.kind, Head(cmd.queue))),
                          !.queue = Tail(@),
                          !.failed = exitCode # 0,
                          !.pc = IF exitCode # 0 \/ Tail(cmd.queue) = << >> THEN "done" ELSE "kill"]
    /\ UNCHANGED <<connections, executors, heap, secrets, persisted, calls, last, got, upd, held, active,
                   svc, conf>>

NextCmd ==
    \/ \E kind \in {"pane", "window"} :
          \E selection \in {sel \in Selections(TreeItems(kind), MaxBatch) : Distinct(sel)} :
             \E item \in TreeItems(kind) : DeleteInvoke(kind, item, selection)
    \/ DeleteCancel
    \/ DeleteConfirm
    \/ \E exitCode \in {0, 1} : DeleteNext(exitCode)

SpecCmd == Init /\ [][NextCmd]_vars

(***************************************************************************)
(* TmuxService.  Text is held as a sequence of pieces: the characters of   *)
(* names, ids and command output one by one, the fixed text of a template  *)
(* literal as one piece.                                                   *)
(***************************************************************************)
MutatingOps ==
    {"createSession", "killSession", "renameSession", "createWindow", "killWindow",
     "renameWindow", "selectWindow", "splitPaneHorizontal", "splitPaneVertical", "killPane",
     "selectPane"}

\* The characters that `${n}` writes a number with and parseInt reads.
DecimalDigits == <<"0", "1", "2", "3", "4", "5", "6", "7", "8", "9">>

IsDecimalDigit(ch) == \E d \in 1..Len(DecimalDigits) : DecimalDigits[d] = ch

DecimalValue(ch) == (CHOOSE d \in 1..Len(DecimalDigits) : DecimalDigits[d] = ch) - 1

\* `${n}` of a number.
RECURSIVE NumberText(_)
NumberText(n) ==
    IF n < 10 THEN <<DecimalDigits[n + 1]>>
    ELSE NumberText(n \div 10) \o <<DecimalDigits[(n % 10) + 1]>>

\* "${text}"
Quoted(text) == <<"\"">> \o text \o <<"\"">>

\* "${sessionName}:${windowIndex}"
WindowTarget(args) == Quoted(args.session \o <<":">> \o NumberText(args.window))

\* The command line each mutating operation builds.
TmuxCommand(op, args) ==
    CASE op = "createSession" ->
            <<"tmux new-session -d">>
               \o (IF JsTruthy(args.name) THEN <<" -s ">> \o Quoted(args.name.s) ELSE << >>)
      [] op = "killSession" -> <<"tmux kill-session -t ">> \o Quoted(args.session)
      [] op = "renameSession" ->
            <<"tmux rename-session -t ">> \o Quoted(args.session) \o <<" ">>
               \o Quoted(args.name.s)
      [] op = "createWindow" ->
            <<"tmux new-window -t ">> \o Quoted(args.session)
               \o (IF JsTruthy(args.name) THEN <<" -n ">> \o Quoted(args.name.s) ELSE << >>)
      [] op = "killWindow" -> <<"tmux kill-window -t ">> \o WindowTarget(args)
      [] op = "renameWindow" ->
            <<"tmux rename-window -t ">> \o WindowTarget(args) \o <<" ">>
               \o Quoted(args.name.s)
      [] op = "selectWindow" -> <<"tmux select-window -t ">> \o WindowTarget(args)
      [] op = "splitPaneHorizontal" -> <<"tmux split-window -h -t ">> \o Quoted(args.target)
      [] op = "splitPaneVertical" -> <<"tmux split-window -v -t ">> \o Quoted(args.target)
      [] op = "killPane" -> <<"tmux kill-pane -t ">> \o Quoted(args.target)
      [] op = "selectPane" -> <<"tmux select-pane -t ">> \o Quoted(args.target)

\* tmux list-sessions -F "${format}" 2>/dev/null
ListSessionsCommand == <<"tmux list-sessions -F ">> \o Quoted(<<"#{session_id}:#{session_name}:#{session_attached}:#{session_windows}:#{session_created}">>) \o <<" 2>/dev/null">>

\* The message of the error an operation throws when stderr is empty: each
\* operation has its own text, written here as the operation's name and
\* " failed".
GenericMessage(op) == JsString(<<op, " failed">>)

\* An error that always carries the generic message.
ErrorMessageGeneric(result, op) == GenericMessage(op)

\* new Error(result.stderr || '<generic message>')
ErrorMessage(result, op) == JsOr(result.stderr, GenericMessage(op))

\* String.prototype.split(sep)
RECURSIVE Split(_, _)
Split(text, sep) ==
    IF \A i \in 1..Len(text) : text[i] # sep THEN <<text>>
    ELSE LET i == CHOOSE k \in 1..Len(text) :
                     text[k] = sep /\ \A j \in 1..(k - 1) : text[j] # sep
         IN <<SubSeq(text, 1, i - 1)>> \o Split(SubSeq(text, i + 1, Len(text)), sep)

\* The number that the leading digits of text spell.
RECURSIVE DigitsValue(_, _)
DigitsValue(text, acc) ==
    IF text # << >> /\ IsDecimalDigit(Head(text))
    THEN DigitsValue(Tail(text), 10 * acc + DecimalValue(Head(text)))
    ELSE acc

JsNaN == [t |-> "nan", n |-> 0, s |-> << >>]

\* parseInt(text, 10) of a text without a sign: leading whitespace is
\* skipped, the leading digits are read, NaN when there is none.
ParseInt(text) ==
    LET digits == TrimStart(text)
    IN IF digits # << >> /\ IsDecimalDigit(Head(digits)) THEN JsNumber(DigitsValue(digits, 0))
       ELSE JsNaN

\* A flag that is set unless it is "0".
IsFlagSetLoose(field) == field # <<"0">>

\* parts[i] === '1'
IsFlagSet(field) == field = <<"1">>

\* parseInt(field, 10) || 0
IntOrZero(field) == JsOr(ParseInt(field), JsNumber(0)).n

\* The TmuxSession of a line of at least 4 fields.
TmuxSession(parts) ==
    [id |-> parts[1], name |-> parts[2], attached |-> IsFlagSet(parts[3]),
     windowCount |-> IntOrZero(parts[4]), windows |-> << >>,
     createdAt |-> IF Len(parts) >= 5 /\ parts[5] # << >>
                   THEN [ParseInt(parts[5]) EXCEPT !.n = @ * 1000] ELSE JsUndefined]

\* listSessions on the result of its command: no session when the command
\* failed or printed nothing, else one session per non-blank line that has
\* at least 4 fields.
\* A listing that asks for one field more.
RequiredFieldsMore(op) == IF op = "listPanes" THEN 8 ELSE 5

\* if (parts.length >= 4), >= 7 in listPanes
RequiredFields(op) == IF op = "listPanes" THEN 7 ELSE 4

RECURSIVE SessionsOf(_)
SessionsOf(lines) ==
    IF lines = << >> THEN << >>
    ELSE LET parts == Split(Head(lines), ":")
         IN (IF Len(parts) >= RequiredFields("listSessions") THEN <<TmuxSession(parts)>>
             ELSE << >>)
               \o SessionsOf(Tail(lines))

\* A listing that is never taken as failed.
ListFailedNever(result) == FALSE

\* if (result.exitCode !== 0 || !result.stdout)
ListFailed(result) == result.exitCode # JsNumber(0) \/ ~JsTruthy(result.stdout)

\* result.stdout.split('\n').filter(line => line.trim())
LinesOf(result) == SelectSeq(Split(result.stdout.s, "\n"), LAMBDA line : Trim(line) # << >>)

ListSessions(result) == IF ListFailed(result) THEN << >> ELSE SessionsOf(LinesOf(result))

\* tmux list-windows -t "${sessionName}" -F "${format}" 2>/dev/null
ListWindowsCommand(sessionName) ==
    <<"tmux list-windows -t ">> \o Quoted(sessionName) \o <<" -F ">>
       \o Quoted(<<"#{window_id}:#{window_index}:#{window_name}:#{window_active}">>)
       \o <<" 2>/dev/null">>

\* The TmuxWindow of a line of at least 4 fields.
TmuxWindow(parts, sessionName) ==
    [id |-> parts[1], index |-> IntOrZero(parts[2]), name |-> parts[3],
     active |-> IsFlagSet(parts[4]), panes |-> << >>, sessionName |-> sessionName]

RECURSIVE WindowsOf(_, _)
WindowsOf(lines, sessionName) ==
    IF lines = << >> THEN << >>
    ELSE LET parts == Split(Head(lines), ":")
         IN (IF Len(parts) >= RequiredFields("listWindows")
             THEN <<TmuxWindow(parts, sessionName)>> ELSE << >>)
               \o WindowsOf(Tail(lines), sessionName)

ListWindows(result, sessionName) ==
    IF ListFailed(result) THEN << >> ELSE WindowsOf(LinesOf(result), sessionName)

\* tmux list-panes -t "${sessionName}:${windowId}" -F "${format}" 2>/dev/null
ListPanesCommand(sessionName, windowId) ==
    <<"tmux list-panes -t ">> \o Quoted(sessionName \o <<":">> \o windowId) \o <<" -F ">>
       \o Quoted(<<"#{pane_id}:#{pane_index}:#{pane_active}:#{pane_current_path}:#{pane_current_command}:#{pane_width}:#{pane_height}">>)
       \o <<" 2>/dev/null">>

\* A path that is taken as printed.
CurrentPathAsPrinted(field) == field

\* parts[3] || '~'
CurrentPath(field) == JsOr(JsString(field), JsString(<<"~">>)).s

\* The TmuxPane of a line of at least 7 fields.
TmuxPane(parts, sessionName, windowId) ==
    [id |-> parts[1], index |-> IntOrZero(parts[2]), active |-> IsFlagSet(parts[3]),
     currentPath |-> CurrentPath(parts[4]),
     currentCommand |-> JsOr(JsString(parts[5]), JsString(<< >>)).s,
     width |-> IntOrZero(parts[6]), height |-> IntOrZero(parts[7]),
     windowId |-> windowId, sessionName |-> sessionName]

RECURSIVE PanesOf(_, _, _)
PanesOf(lines, sessionName, windowId) ==
    IF lines = << >> THEN << >>
    ELSE LET parts == Split(Head(lines), ":")
         IN (IF Len(parts) >= RequiredFields("listPanes")
             THEN <<TmuxPane(parts, sessionName, windowId)>> ELSE << >>)
               \o PanesOf(Tail(lines), sessionName, windowId)

ListPanes(result, sessionName, windowId) ==
    IF ListFailed(result) THEN << >> ELSE PanesOf(LinesOf(result), sessionName, windowId)

\* sessions.find(s => s.name === name) || null
FindSession(sessions, name) ==
    IF \E i \in 1..Len(sessions) : sessions[i].name = name
    THEN sessions[CHOOSE i \in 1..Len(sessions) :
                     sessions[i].name = name /\ \A j \in 1..(i - 1) : sessions[j].name # name]
    ELSE NoSession

\* A createSession that returns the first session of the listing.
CreatedSessionFirst(sessions, name) ==
    IF sessions # << >> THEN sessions[1] ELSE NoSession

\* The session createSession returns from the refreshed listing.
CreatedSession(sessions, name) ==
    IF JsTruthy(name) THEN FindSession(sessions, name.s)
    ELSE IF sessions # << >> THEN sessions[Len(sessions)] ELSE NoSession

\* An exit-code check that never fails.
CommandFailedNever(result) == FALSE

\* if (result.exitCode !== 0)
CommandFailed(result) == result.exitCode # JsNumber(0)

\* The names, targets and indexes the commands are called with.
SessionNames == { <<"d">>, <<"e">> }

OptionalNames == {JsUndefined, JsString(<< >>), JsString(<<"d">>)}

TmuxArgsOf(op) ==
    {TmuxArgs(session, window, name, target) :
        session \in IF op = "createSession" THEN { << >> } ELSE SessionNames,
        window \in IF op \in {"killWindow", "renameWindow", "selectWindow"} THEN {0, 12} ELSE {0},
        name \in IF op \in {"createSession", "createWindow"} THEN OptionalNames
                 ELSE IF op \in {"renameSession", "renameWindow"} THEN {JsString(<<"e">>)}
                 ELSE {JsUndefined},
        target \in IF op \in {"splitPaneHorizontal", "splitPaneVertical", "killPane",
                              "selectPane"} THEN {<<"%", "1">>} ELSE { << >> }}

\* What a tmux command leaves on stderr.
ErrorOutputs == { << >>, <<" ">>, <<"n", "o", "\n">> }

SessionLine(id, name, attached, windows) ==
    <<"$">> \o id \o <<":">> \o name \o <<":">> \o attached \o <<":">> \o windows

\* What list-sessions prints: nothing, one session, two sessions, and a
\* second line that lacks fields.
Listings ==
    { << >>,
      SessionLine(<<"0">>, <<"d">>, <<"1">>, <<"2">>) \o <<":", "1", "7">>,
      SessionLine(<<"0">>, <<"d">>, <<"0">>, <<"1">>) \o <<"\n">>
         \o SessionLine(<<"1">>, <<"e">>, <<"1">>, <<"x">>),
      SessionLine(<<"0">>, <<"e">>, <<"0">>, <<"1">>) \o <<"\n">> \o <<"$", "1", ":", "d">> }

\* The results connectionManager.execute resolves with (the executors trim
\* stdout and stderr).
TmuxResults(outputs) ==
    {CommandResult(JsString(Trim(stdout)), JsString(Trim(stderr)), exitCode) :
        stdout \in outputs, stderr \in ErrorOutputs, exitCode \in ExitCodes}

\* A mutating operation is called: it builds its command and awaits
\* connectionManager.execute(connectionId, command).
TmuxCall(op, args) ==
    /\ svc.pc \in {"idle", "done"}
    /\ svc' = [NoService EXCEPT !.op = op, !.args = args, !.pc = "execute",
                                !.issued = <<TmuxCommand(op, args)>>]
    /\ UNCHANGED <<connections, executors, heap, secrets, persisted, calls, last, got, upd, held, active,
                   cmd, conf>>

\* execute resolves with the result of the operation's command: a non-zero
\* exit code throws stderr or the generic message; createSession goes on to
\* listSessions, which awaits its own command; every other operation
\* returns.
TmuxCommandResolves(result) ==
    /\ svc.pc = "execute"
    /\ svc' = IF CommandFailed(result)
              THEN [svc EXCEPT !.pc = "done", !.status = "failed", !.exit = result.exitCode,
                               !.result = result,
                               !.message = ErrorMessage(result, svc.op)]
              ELSE IF svc.op = "createSession"
              THEN [svc EXCEPT !.pc = "list", !.exit = result.exitCode, !.result = result,
                               !.issued = Append(@, ListSessionsCommand)]
              ELSE [svc EXCEPT !.pc = "done", !.status = "ok", !.exit = result.exitCode,
                               !.result = result]
    /\ UNCHANGED <<connections, executors, heap, secrets, persisted, calls, last, got, upd, held, active,
                   cmd, conf>>

\* execute rejects (unknown id, connect or exec error): the operation
\* rejects with the same error.
TmuxExecuteRejects ==
    /\ svc.pc \in {"execute", "list"}
    /\ svc' = [svc EXCEPT !.pc = "done", !.status = "rejected"]
    /\ UNCHANGED <<connections, executors, heap, secrets, persisted, calls, last, got, upd, held, active,
                   cmd, conf>>

\* The list-sessions command of createSession resolves: createSession
\* returns the session of that name, or the last one, or null.
TmuxListResolves(result) ==
    /\ svc.pc = "list"
    /\ svc' = [svc EXCEPT !.pc = "done", !.status = "ok", !.listed = result,
                          !.ret = CreatedSession(ListSessions(result), svc.args.name)]
    /\ UNCHANGED <<connections, executors, heap, secrets, persisted, calls, last, got, upd, held, active,
                   cmd, conf>>

NextTmux ==
    \/ \E op \in MutatingOps : \E args \in TmuxArgsOf(op) : TmuxCall(op, args)
    \/ \E result \in TmuxResults({ << >> }) : TmuxCommandResolves(result)
    \/ TmuxExecuteRejects
    \/ \E result \in TmuxResults(Listings) : TmuxListResolves(result)

SpecTmux == Init /\ [][NextTmux]_vars

(***************************************************************************)
(* The listing operations of TmuxService on their own.  What tmux prints   *)
(* is drawn as rows: the fields of a line, and beside them the numbers     *)
(* that its numeric fields spell, for the properties to compare with.      *)
(***************************************************************************)
ListingOps == {"listSessions", "listWindows", "listPanes"}

Row(fields, numbers) == [fields |-> fields, numbers |-> numbers]

\* Lines of list-sessions: attached with 2 windows, detached with 12 and
\* no creation time, a flag that is not exactly "1", a line of 3 fields,
\* a blank line.
SessionRows ==
    {Row(<< <<"$", "0">>, <<"d">>, <<"1">>, <<"2">>, <<"1", "7">> >>, <<2>>),
     Row(<< <<"$", "1">>, <<"e">>, <<"0">>, <<"1", "2">> >>, <<12>>),
     Row(<< <<"$", "2">>, <<"f">>, <<"1", "1">>, <<"0">>, << >> >>, <<0>>),
     Row(<< <<"$", "3">>, <<"g">>, <<"1">> >>, << >>),
     Row(<< <<" ">> >>, << >>)}

\* Lines of list-windows: active window 0, inactive window 12, a name that
\* holds a colon, a line of 3 fields.
WindowRows ==
    {Row(<< <<"@", "0">>, <<"0">>, <<"w">>, <<"1">> >>, <<0>>),
     Row(<< <<"@", "1">>, <<"1", "2">>, <<"v">>, <<"0">> >>, <<12>>),
     Row(<< <<"@", "2">>, <<"3">>, <<"a">>, <<"b">>, <<"1">> >>, <<3>>),
     Row(<< <<"@", "3">>, <<"4">>, <<"1">> >>, << >>)}

\* Lines of list-panes: an active pane, a pane without path and command, a
\* path that holds a colon, a line of 6 fields.
PaneRows ==
    {Row(<< <<"%", "0">>, <<"0">>, <<"1">>, <<"/", "h">>, <<"s", "h">>, <<"8", "0">>,
            <<"2", "4">> >>, <<0, 80, 24>>),
     Row(<< <<"%", "1">>, <<"1">>, <<"0">>, << >>, << >>, <<"1", "2", "0">>, <<"4", "0">> >>,
         <<1, 120, 40>>),
     Row(<< <<"%", "2">>, <<"2">>, <<"0">>, <<"/", "a">>, <<"b">>, <<"v", "i">>, <<"8", "0">>,
            <<"2", "4">> >>, <<2, 0, 80>>),
     Row(<< <<"%", "3">>, <<"3">>, <<"1">>, <<"/", "h">>, <<"s", "h">>, <<"8", "0">> >>, << >>)}

RowsOf(op) ==
    CASE op = "listSessions" -> SessionRows
      [] op = "listWindows" -> WindowRows
      [] op = "listPanes" -> PaneRows

MaxLines == 3

\* The listings of at most MaxLines lines.
RowSeqs(rows) == UNION {[1..n -> rows] : n \in 0..MaxLines}

\* The fields of a line, colon-separated.
RECURSIVE JoinFields(_)
JoinFields(fields) ==
    IF Len(fields) = 1 THEN fields[1] ELSE fields[1] \o <<":">> \o JoinFields(Tail(fields))

\* What tmux prints for the rows: each line ends with a newline.
RECURSIVE OutputOf(_)
OutputOf(rows) ==
    IF rows = << >> THEN << >>
    ELSE JoinFields(Head(rows).fields) \o <<"\n">> \o OutputOf(Tail(rows))

\* What connectionManager.execute rejects with.
ExecuteErrors == {"connection not found", "connect failed"}

ListingArgsOf(op) ==
    {TmuxArgs(session, 0, JsUndefined, target) :
        session \in IF op = "listSessions" THEN { << >> } ELSE {<<"d">>},
        target \in IF op = "listPanes" THEN {<<"0">>, <<"1", "2">>} ELSE { << >> }}

ListingCommand(op, args) ==
    CASE op = "listSessions" -> ListSessionsCommand
      [] op = "listWindows" -> ListWindowsCommand(args.session)
      [] op = "listPanes" -> ListPanesCommand(args.session, args.target)

Listed(op, args, result) ==
    CASE op = "listSessions" -> ListSessions(result)
      [] op = "listWindows" -> ListWindows(result, args.session)
      [] op = "listPanes" -> ListPanes(result, args.session, args.target)

\* A listing operation is called: it awaits its command.
ListingCall(op, args) ==
    /\ svc.pc \in {"idle", "done"}
    /\ svc' = [NoService EXCEPT !.op = op, !.args = args, !.pc = "execute",
                                !.issued = <<ListingCommand(op, args)>>, !.ret = << >>]
    /\ UNCHANGED <<connections, executors, heap, secrets, persisted, calls, last, got, upd, held, active,
                   cmd, conf>>

\* The command resolves with the trimmed output of tmux: the operation
\* returns the records it reads from it.
ListingResolves(rows, exitCode) ==
    /\ svc.pc = "execute"
    /\ svc.op \in ListingOps
    /\ rows \in RowSeqs(RowsOf(svc.op))
    /\ LET result == CommandResult(JsString(Trim(OutputOf(rows))), JsString(<< >>), exitCode)
       IN svc' = [svc EXCEPT !.pc = "done", !.status = "ok", !.input = rows,
                             !.result = result, !.exit = exitCode,
                             !.ret = Listed(svc.op, svc.args, result)]
    /\ UNCHANGED <<connections, executors, heap, secrets, persisted, calls, last, got, upd, held, active,
                   cmd, conf>>

\* execute rejects: nothing catches it, the operation rejects with it.
ListingRejects(err) ==
    /\ svc.pc = "execute"
    /\ svc.op \in ListingOps
    /\ svc' = [svc EXCEPT !.pc = "done", !.status = "rejected", !.cause = err,
                          !.message = JsString(<<err>>)]
    /\ UNCHANGED <<connections, executors, heap, secrets, persisted, calls, last, got, upd, held, active,
                   cmd, conf>>

AllRowSeqs == UNION {RowSeqs(RowsOf(op)) : op \in ListingOps}

NextList ==
    \/ \E op \in ListingOps : \E args \in ListingArgsOf(op) : ListingCall(op, args)
    \/ \E rows \in AllRowSeqs : \E exitCode \in ExitCodes : ListingResolves(rows, exitCode)
    \/ \E err \in ExecuteErrors : ListingRejects(err)

SpecList == Init /\ [][NextList]_vars

(***************************************************************************)
(* getSessionTree.                                                         *)
(***************************************************************************)
\* Lines of the three listings that getSessionTree reads.
TreeSessionRows ==
    {Row(<< <<"$", "0">>, <<"d">>, <<"1">>, <<"2">>, <<"1", "7">> >>, <<2>>),
     Row(<< <<"$", "1">>, <<"e">>, <<"0">>, <<"1">> >>, <<1>>)}

TreeWindowRows ==
    {Row(<< <<"@", "0">>, <<"0">>, <<"w">>, <<"1">> >>, <<0>>),
     Row(<< <<"@", "5">>, <<"1", "2">>, <<"v">>, <<"0">> >>, <<12>>)}

TreePaneRows ==
    {Row(<< <<"%", "0">>, <<"0">>, <<"1">>, <<"/", "h">>, <<"s", "h">>, <<"8", "0">>,
            <<"2", "4">> >>, <<0, 80, 24>>),
     Row(<< <<"%", "3">>, <<"3">>, <<"1">>, <<"/", "h">>, <<"s", "h">>, <<"8", "0">> >>, << >>)}

MaxTreeLines == 2

MaxPaneLines == 1

TreeListings(rows, lines) == UNION {[1..n -> rows] : n \in 0..lines}

\* What a command of getSessionTree resolved with.
TreeResult(rows, exitCode) ==
    CommandResult(JsString(Trim(OutputOf(rows))), JsString(<< >>), exitCode)

Answer(rows, exitCode) == [rows |-> rows, exitCode |-> exitCode]

\* String(window.index)
WindowIndexText(window) == NumberText(window.index)

\* A pane listing that is asked for by the id of the window.
PaneTargetById(window) == window.id

\* The window that listPanes is called for: String(window.index).
PaneTarget(window) == WindowIndexText(window)

\* The loops of getSessionTree after the windows of session i are in
\* place and the panes of its windows up to j: the panes of the next
\* window are asked for, or the windows of the next session, or the tree
\* is returned.
TreeAdvance(tree, i, j, issued, answers) ==
    IF j < Len(tree[i].windows)
    THEN [svc EXCEPT !.pc = "panes", !.ret = tree, !.at = <<i, j + 1>>, !.answers = answers,
                     !.issued = Append(issued, ListPanesCommand(tree[i].name,
                                                 PaneTarget(tree[i].windows[j + 1])))]
    ELSE IF i < Len(tree)
    THEN [svc EXCEPT !.pc = "windows", !.ret = tree, !.at = <<i + 1, 0>>, !.answers = answers,
                     !.issued = Append(issued, ListWindowsCommand(tree[i + 1].name))]
    ELSE [svc EXCEPT !.pc = "done", !.status = "ok", !.ret = tree, !.answers = answers]

\* getSessionTree is called: listSessions awaits its command.
TreeCall ==
    /\ svc.pc \in {"idle", "done"}
    /\ svc' = [NoService EXCEPT !.op = "getSessionTree", !.pc = "sessions", !.ret = << >>,
                                !.issued = <<ListSessionsCommand>>]
    /\ UNCHANGED <<connections, executors, heap, secrets, persisted, calls, last, got, upd, held, active,
                   cmd, conf>>

\* list-sessions resolves: without sessions the empty tree is returned,
\* else the windows of the first session are asked for.
TreeSessionsResolve(rows, exitCode) ==
    /\ svc.pc = "sessions"
    /\ LET sessions == ListSessions(TreeResult(rows, exitCode))
           answers == Append(svc.answers, Answer(rows, exitCode))
       IN svc' = IF sessions = << >>
                 THEN [svc EXCEPT !.pc = "done", !.status = "ok", !.answers = answers]
                 ELSE [svc EXCEPT !.pc = "windows", !.ret = sessions, !.at = <<1, 0>>,
                                  !.answers = answers,
                                  !.issued = Append(@, ListWindowsCommand(sessions[1].name))]
    /\ UNCHANGED <<connections, executors, heap, secrets, persisted, calls, last, got, upd, held, active,
                   cmd, conf>>

\* list-windows of the session reached resolves: session.windows is set.
TreeWindowsResolve(rows, exitCode) ==
    /\ svc.pc = "windows"
    /\ LET i == svc.at[1]
           windows == ListWindows(TreeResult(rows, exitCode), svc.ret[i].name)
           tree == [svc.ret EXCEPT ![i].windows = windows]
       IN svc' = TreeAdvance(tree, i, 0, svc.issued, Append(svc.answers, Answer(rows, exitCode)))
    /\ UNCHANGED <<connections, executors, heap, secrets, persisted, calls, last, got, upd, held, active,
                   cmd, conf>>

\* list-panes of the window reached resolves: window.panes is set.
TreePanesResolve(rows, exitCode) ==
    /\ svc.pc = "panes"
    /\ LET i == svc.at[1]
           j == svc.at[2]
           window == svc.ret[i].windows[j]
           panes == ListPanes(TreeResult(rows, exitCode), svc.ret[i].name,
                              WindowIndexText(window))
           tree == [svc.ret EXCEPT ![i].windows[j].panes = panes]
       IN svc' = TreeAdvance(tree, i, j, svc.issued, Append(svc.answers, Answer(rows, exitCode)))
    /\ UNCHANGED <<connections, executors, heap, secrets, persisted, calls, last, got, upd, held, active,
                   cmd, conf>>

\* execute rejects in one of the listings: getSessionTree rejects with it.
TreeRejects(err) ==
    /\ svc.pc \in {"sessions", "windows", "panes"}
    /\ svc' = [svc EXCEPT !.pc = "done", !.status = "rejected", !.cause = err,
                          !.message = JsString(<<err>>)]
    /\ UNCHANGED <<connections, executors, heap, secrets, persisted, calls, last, got, upd, held, active,
                   cmd, conf>>

NextTree ==
    \/ TreeCall
    \/ \E rows \in TreeListings(TreeSessionRows, MaxTreeLines) :
          \E exitCode \in ExitCodes : TreeSessionsResolve(rows, exitCode)
    \/ \E rows \in TreeListings(TreeWindowRows, MaxTreeLines) :
          \E exitCode \in ExitCodes : TreeWindowsResolve(rows, exitCode)
    \/ \E rows \in TreeListings(TreePaneRows, MaxPaneLines) :
          \E exitCode \in ExitCodes : TreePanesResolve(rows, exitCode)
    \/ \E err \in ExecuteErrors : TreeRejects(err)

SpecTree == Init /\ [][NextTree]_vars

(***************************************************************************)
(* Mouse mode.  enableMouseMode and disableMouseMode run shell commands on *)
(* ~/.tmux.conf; the commands are modelled by what the shell does with the *)
(* file.  The lines of the file are held character by character.           *)
(***************************************************************************)
MouseOps == {"enableMouseMode", "disableMouseMode"}

\* grep -q "^set.*-g.*mouse.*on" ~/.tmux.conf 2>/dev/null && echo "exists" || echo "not_exists"
ProbeCommand ==
    <<"grep -q \"^set.*-g.*mouse.*on\" ~/.tmux.conf 2>/dev/null && echo \"exists\" || echo \"not_exists\"">>

AppendCommand == <<"echo \"set -g mouse on\" >> ~/.tmux.conf">>

ReloadCommand == <<"tmux source-file ~/.tmux.conf 2>/dev/null || true">>

SetOptionCommand(value) == <<"tmux set-option -g mouse ", value, " 2>/dev/null || true">>

SedCommand == <<"sed -i '/^set.*-g.*mouse.*on/d' ~/.tmux.conf 2>/dev/null || true">>

\* The line that the append command writes.
MouseOnLine == <<"s", "e", "t", " ", "-", "g", " ", "m", "o", "u", "s", "e", " ", "o", "n">>

MouseOffLine ==
    <<"s", "e", "t", " ", "-", "g", " ", "m", "o", "u", "s", "e", " ", "o", "f", "f">>

OtherLine == <<"x">>

\* The place after the first occurrence of a word in a line at or after a
\* place; 0 when there is none, or when the place is 0 already.
AfterWord(line, word, from) ==
    LET places == {i \in 1..Len(line) :
                      /\ i >= from
                      /\ i + Len(word) - 1 <= Len(line)
                      /\ SubSeq(line, i, i + Len(word) - 1) = word}
    IN IF from = 0 \/ places = {} THEN 0
       ELSE (CHOOSE i \in places : \A k \in places : i <= k) + Len(word)

\* The regular expression ^set.*-g.*mouse.*on of the probe and of sed.
MatchesMouseOn(line) ==
    LET set == IF Len(line) >= 3 /\ SubSeq(line, 1, 3) = <<"s", "e", "t">> THEN 4 ELSE 0
        g == AfterWord(line, <<"-", "g">>, set)
        mouse == AfterWord(line, <<"m", "o", "u", "s", "e">>, g)
    IN AfterWord(line, <<"o", "n">>, mouse) # 0

\* grep -q: a line of the file matches.
Grep(file) == file.exists /\ \E i \in 1..Len(file.lines) : MatchesMouseOn(file.lines[i])

\* What the probe prints.
ProbeStdout(file) == IF Grep(file) THEN <<"exists", "\n">> ELSE <<"not_exists", "\n">>

\* echo "set -g mouse on" >> file: the text and a newline are written at
\* the end of the file, after the last line when that has no newline of
\* its own; the file is made when it is missing.
EchoAppend(file) ==
    IF ~file.writable THEN file
    ELSE IF ~file.exists THEN File(TRUE, TRUE, <<MouseOnLine>>, FALSE)
    ELSE IF file.open
    THEN [file EXCEPT !.lines[Len(file.lines)] = @ \o MouseOnLine, !.open = FALSE]
    ELSE [file EXCEPT !.lines = Append(@, MouseOnLine)]

\* sed -i '/.../d' file: the matching lines are deleted.
SedDelete(file) ==
    IF ~file.exists \/ ~file.writable THEN file
    ELSE [file EXCEPT !.lines = SelectSeq(@, LAMBDA line : ~MatchesMouseOn(line)),
                      !.open = /\ @
                               /\ ~MatchesMouseOn(file.lines[Len(file.lines)])]

\* The files that ~/.tmux.conf starts as.
ConfFiles ==
    {File(FALSE, writable, << >>, FALSE) : writable \in BOOLEAN}
       \cup {File(TRUE, writable, lines, open) :
                writable \in BOOLEAN,
                lines \in {<<OtherLine>>, <<MouseOnLine>>, <<MouseOffLine>>,
                           <<OtherLine, MouseOnLine>>, <<MouseOnLine, MouseOnLine>>},
                open \in BOOLEAN}
       \cup {File(TRUE, writable, << >>, FALSE) : writable \in BOOLEAN}

\* A probe that always reports that no line matches.
ProbeSaysMissingAlways(result) == TRUE

\* checkResult.stdout.trim() === 'not_exists'
ProbeSaysMissing(result) == Trim(result.stdout.s) = <<"not_exists">>

\* The operation awaits the next command.
MouseIssue(s, pc, command, result) ==
    [s EXCEPT !.pc = pc, !.issued = Append(@, command), !.answers = Append(@, result)]

\* The operation settles.
MouseSettle(s, status, message, result) ==
    [s EXCEPT !.pc = "done", !.status = status, !.message = message,
              !.answers = Append(@, result)]

\* enableMouseMode or disableMouseMode is called and awaits its first
\* command.
MouseCall(op) ==
    /\ svc.pc \in {"idle", "done"}
    /\ svc' = [NoService EXCEPT !.op = op,
                                !.pc = IF op = "enableMouseMode" THEN "probe" ELSE "sed",
                                !.issued = IF op = "enableMouseMode" THEN <<ProbeCommand>>
                                           ELSE <<SedCommand>>]
    /\ UNCHANGED <<connections, executors, heap, secrets, persisted, calls, last, got, upd, held, active,
                   cmd, conf>>

\* The probe resolves: the line is appended when it says not_exists, the
\* configuration is reloaded otherwise.
MouseProbeResolves ==
    /\ svc.pc = "probe"
    /\ LET result == CommandResult(JsString(Trim(ProbeStdout(conf.file))), JsString(<< >>),
                                   JsNumber(0))
       IN svc' = IF ProbeSaysMissing(result)
                 THEN MouseIssue(svc, "append", AppendCommand, result)
                 ELSE MouseIssue(svc, "reload", ReloadCommand, result)
    /\ UNCHANGED <<connections, executors, heap, secrets, persisted, calls, last, got, upd, held, active,
                   cmd, conf>>

\* The append command has run and resolves: a non-zero exit code throws,
\* else the configuration is reloaded.
MouseAppendResolves ==
    /\ svc.pc = "append"
    /\ conf' = [conf EXCEPT !.file = EchoAppend(@)]
    /\ LET result == IF conf.file.writable
                     THEN CommandResult(JsString(<< >>), JsString(<< >>), JsNumber(0))
                     ELSE CommandResult(JsString(<< >>), JsString(<<"Permission denied">>),
                                        JsNumber(1))
       IN svc' = IF CommandFailed(result)
                 THEN MouseSettle(svc, "failed", ErrorMessage(result, svc.op), result)
                 ELSE MouseIssue(svc, "reload", ReloadCommand, result)
    /\ UNCHANGED <<connections, executors, heap, secrets, persisted, calls, last, got, upd, held, active,
                   cmd>>

\* The reload resolves; its result is not looked at.  The live option is
\* set next.
MouseReloadResolves(exitCode) ==
    /\ svc.pc = "reload"
    /\ svc' = MouseIssue(svc, "set", SetOptionCommand("on"),
                         CommandResult(JsString(<< >>), JsString(<< >>), exitCode))
    /\ UNCHANGED <<connections, executors, heap, secrets, persisted, calls, last, got, upd, held, active,
                   cmd, conf>>

\* The sed command of disableMouseMode has run and resolves; a new run of
\* enableMouseMode calls begins with the file as it is now. The live
\* option is set next.
MouseSedResolves ==
    /\ svc.pc = "sed"
    /\ conf' = Conf(SedDelete(conf.file))
    /\ svc' = MouseIssue(svc, "set", SetOptionCommand("off"),
                         CommandResult(JsString(<< >>), JsString(<< >>), JsNumber(0)))
    /\ UNCHANGED <<connections, executors, heap, secrets, persisted, calls, last, got, upd, held, active,
                   cmd>>

\* The command that sets the live option resolves: the operation returns.
MouseSetResolves(exitCode) ==
    /\ svc.pc = "set"
    /\ svc' = MouseSettle(svc, "ok", JsUndefined,
                          CommandResult(JsString(<< >>), JsString(<< >>), exitCode))
    /\ UNCHANGED <<connections, executors, heap, secrets, persisted, calls, last, got, upd, held, active,
                   cmd, conf>>

\* execute rejects before the command has run: the operation rejects.
MouseRejects(err) ==
    /\ svc.pc \in {"probe", "append", "reload", "sed", "set"}
    /\ svc' = [svc EXCEPT !.pc = "done", !.status = "rejected", !.cause = err,
                          !.message = JsString(<<err>>)]
    /\ UNCHANGED <<connections, executors, heap, secrets, persisted, calls, last, got, upd, held, active,
                   cmd, conf>>

InitMouse ==
    LET n == NewConnectionManager(<< >>, NoSecrets, 1)
    IN /\ connections = n.connections
       /\ executors = n.executors
       /\ heap = n.heap
       /\ secrets = n.secrets
       /\ persisted = n.persisted
       /\ calls = n.calls
       /\ last = n.last
       /\ got = n.got
       /\ upd = n.upd
       /\ held = n.held
       /\ cmd = NoCommand
       /\ svc = NoService
       /\ conf \in {Conf(file) : file \in ConfFiles}
       /\ active = TRUE

NextMouse ==
    \/ \E op \in MouseOps : MouseCall(op)
    \/ MouseProbeResolves
    \/ MouseAppendResolves
    \/ \E exitCode \in ExitCodes : MouseReloadResolves(exitCode)
    \/ MouseSedResolves
    \/ \E exitCode \in ExitCodes : MouseSetResolves(exitCode)
    \/ \E err \in ExecuteErrors : MouseRejects(err)

SpecMouse == InitMouse /\ [][NextMouse]_vars

(***************************************************************************)
(* Properties.                                                             *)
(***************************************************************************)
IssuedTargets == [i \in 1..Len(cmd.issued) |-> cmd.issued[i].target]

CachedInstanceReturned ==
    (last.op = "getExecutor" /\ last.status = "ok" /\ ~last.made)
        => last.ret = got[last.id]

\* C3: when a getExecutor that had to connect fails, the cache holds no
\* executor for the id afterwards.
FailedConnectLeavesNoExecutor ==
    (last.op = "getExecutor" /\ last.status \in {"connectError", "keyError"})
        => executors[last.id] = NoExecutor

SameEndpoint(a, b) == a.host = b.host /\ a.port = b.port /\ a.username = b.username

\* C4: updateSSHConnection leaves no executor cached for the id and the one
\* that was cached disposed, and the first getExecutor of the id after an
\* update that found an executor cached returns a newly constructed
\* executor whose config has the registered (updated) host, port and
\* username.
UpdateEvictsAndReconnects ==
    /\ (last.op = "update" /\ last.status = "ok")
          => /\ executors[last.id] = NoExecutor
             /\ last.old # NoExecutor => ~HasOpenClient(heap[last.old])
    /\ (last.op = "getExecutor" /\ last.status = "ok" /\ last.upd)
          => /\ last.made
             /\ heap[last.ret].kind = "ssh"
             /\ SameEndpoint(heap[last.ret].config, MapGet(connections, last.id).config)

\* C5: every cached executor is keyed by a registered connection id, and a
\* cached SSH executor was constructed from the host, port and username
\* registered for its id.
NoStaleExecutorCached ==
    \A id \in ConnectionIds :
        executors[id] # NoExecutor
            => /\ MapHas(connections, id)
               /\ heap[executors[id]].kind = "ssh"
                     => /\ MapGet(connections, id).type = "ssh"
                        /\ SameEndpoint(heap[executors[id]].config, MapGet(connections, id).config)

OpenExecutors(id) ==
    {ex \in DOMAIN heap : HasOpenClient(heap[ex]) /\ heap[ex].config.id = id}

\* C6: per connection id at most one executor holds a transport client that
\* has not been ended.
AtMostOneOpenClient == \A id \in ConnectionIds : Cardinality(OpenExecutors(id)) <= 1

HasSecret(id) == PasswordKey(id) \in DOMAIN secrets \/ PassphraseKey(id) \in DOMAIN secrets

\* C7: when removeConnection of a registered ssh id has completed, the
\* registry has no record and no cached executor for the id, the executor
\* that was cached is disposed, the secret store has neither the password
\* nor the passphrase entry of the id, and the persisted list has no record
\* of the id.
RemoveLeavesNothing ==
    (last.op = "remove" /\ last.status = "ok" /\ last.reg)
        => /\ ~MapHas(connections, last.id)
           /\ executors[last.id] = NoExecutor
           /\ last.old # NoExecutor
                 => heap[last.old].client = "null" /\ ~heap[last.old].connected
           /\ ~HasSecret(last.id)
           /\ ~MapHas(persisted, last.id)

\* A registered ssh connection was removed whose executor was cached.
RemoveLeavesNothingWitness ==
    /\ last.op = "remove" /\ last.status = "ok" /\ last.reg
    /\ last.old # NoExecutor
    /\ heap[last.old].kind = "ssh"

LocalConnections == {i \in 1..Len(connections) : connections[i].type = "local"}

\* C8: the registry holds exactly one connection of type local, and its id
\* is 'local'.
ExactlyOneLocalConnection ==
    /\ Cardinality(LocalConnections) = 1
    /\ \A i \in LocalConnections : connections[i].id = LOCAL_CONNECTION_ID

\* The cache as the executors it holds per id.
CacheContents ==
    [id \in DOMAIN executors |-> IF executors[id] = NoExecutor THEN Free ELSE heap[executors[id]]]

\* C9: removeConnection('local') rejects, and the step leaves the
\* connections, the executor cache, the secret store and the persisted list
\* as they were.
RemoveLocalChangesNothing ==
    [][(last'.op = "remove" /\ last'.id = LOCAL_CONNECTION_ID)
          => /\ last'.status = "protected"
             /\ connections' = connections
             /\ CacheContents' = CacheContents
             /\ secrets' = secrets
             /\ persisted' = persisted]_vars

\* removeConnection('local') was rejected by a registry that holds an ssh
\* connection, its secret and a persisted record.
RemoveLocalChangesNothingWitness ==
    /\ last.op = "remove" /\ last.id = LOCAL_CONNECTION_ID /\ last.status = "protected"
    /\ Len(connections) > 1
    /\ DOMAIN secrets # {}
    /\ persisted # << >>

\* C10: no record of the persisted list carries a password or a passphrase.
PersistedHasNoSecrets ==
    \A i \in 1..Len(persisted) :
        persisted[i].config # NoConfig
            => /\ persisted[i].config.password = Undefined
               /\ persisted[i].config.passphrase = Undefined

\* The list was persisted while the registry held a config with a password
\* and while it held one with a passphrase.
PersistedHasNoSecretsWitness ==
    /\ persisted # << >>
    /\ \E i \in 1..Len(connections) :
          /\ connections[i].type = "ssh"
          /\ Truthy(connections[i].config.passphrase)
          /\ MapHas(persisted, connections[i].id)

\* C11: after addSSHConnection(config) has completed, the record the
\* registry holds for config.id (getConnection, getAllConnections) carries
\* no password and no passphrase.
AddedRecordHasNoSecrets ==
    (last.op = "add" /\ last.status = "ok")
        => /\ MapHas(connections, last.id)
           /\ MapGet(connections, last.id).config.password = Undefined
           /\ MapGet(connections, last.id).config.passphrase = Undefined

\* Ids whose keys are compared: the ids in use and ids that continue one
\* prefix into the other.
KeyIds == ConnectionIds \cup {"", "ssh-2", "word.", "phrase.", "phrase.ssh-1"}

\* The secret keys a pending addSSHConnection call stores under.
AddKeys(call) ==
    IF call.op # "add" THEN {}
    ELSE (IF Truthy(call.config.password) THEN {PasswordKey(call.id)} ELSE {})
            \cup (IF Truthy(call.config.passphrase) THEN {PassphraseKey(call.id)} ELSE {})

\* C12: when addSSHConnection(config) has completed, the secret store holds
\* config.password under the password key of config.id if a password was
\* given and config.passphrase under the passphrase key of config.id if a
\* passphrase was given; password and passphrase keys of any two ids
\* differ, the keys of one kind differ for different ids; and every entry
\* that appears in the store is a key of a pending addSSHConnection.
AddStoresSecretsUnderOwnKeys ==
    [][/\ (last'.op = "add" /\ last'.status = "ok")
            => /\ Truthy(last'.config.password)
                     => SecretsGet(secrets', PasswordKey(last'.id)) = last'.config.password
               /\ Truthy(last'.config.passphrase)
                     => SecretsGet(secrets', PassphraseKey(last'.id)) = last'.config.passphrase
       /\ \A a, b \in KeyIds :
             /\ PasswordKey(a) # PassphraseKey(b)
             /\ a # b => PasswordKey(a) # PasswordKey(b) /\ PassphraseKey(a) # PassphraseKey(b)
       /\ (DOMAIN secrets') \ (DOMAIN secrets)
             \subseteq UNION {AddKeys(calls[c]) : c \in DOMAIN calls}]_vars

\* An addSSHConnection with a password and a passphrase has completed and
\* the store holds both entries.
AddStoresSecretsUnderOwnKeysWitness ==
    /\ last.op = "add" /\ last.status = "ok"
    /\ Truthy(last.config.password) /\ Truthy(last.config.passphrase)
    /\ PasswordKey(last.id) \in DOMAIN secrets
    /\ PassphraseKey(last.id) \in DOMAIN secrets

\* C13: getExecutor, updateSSHConnection and removeConnection called with an
\* id that names no registered connection fail with a connection-not-found
\* error and leave the connections, the executor cache, the secret store
\* and the persisted list as they were.
UnknownIdFailsAndChangesNothing ==
    [][(last'.op \in {"getExecutor", "update", "remove"} /\ ~MapHas(connections, last'.id))
          => /\ last'.status = "notFound"
             /\ connections' = connections
             /\ CacheContents' = CacheContents
             /\ secrets' = secrets
             /\ persisted' = persisted]_vars

FailingCommandIsResult ==
    /\ (last.op = "exec" /\ heap[last.ret].kind = "local")
          => /\ last.status = "ok"
             /\ last.code # JsNumber(0)
                   => /\ JsTruthy(last.result.exitCode)
                      /\ last.result.stderr.t = "string"
                      /\ last.result.stderr.s # << >>
    /\ (last.op = "exec" /\ heap[last.ret].kind = "ssh" /\ last.code.t = "number"
          /\ last.code.n # 0)
          => /\ last.status = "ok"
             /\ last.result.exitCode = last.code

\* A local command that could not be launched and left no stderr resolved.
FailingCommandIsResultWitness ==
    /\ last.op = "exec" /\ heap[last.ret].kind = "local"
    /\ last.code.t = "string"
    /\ last.result.stderr = ErrorText

\* C16: when the connect of an execute on a disconnected SSHExecutor fails
\* (the client emits 'error', or the key file cannot be read), that step
\* rejects the execute with the connect's error, the call has called
\* connect once and handed no command to the transport, and connected is
\* false.
ConnectFailureRejectsExecute ==
    [][\A ex \in held :
          (heap'[ex].kind = "ssh" /\ heap'[ex].client \in {"error", "idle"}
             /\ heap[ex].client # heap'[ex].client)
              => /\ last'.op = "exec" /\ last'.ret = ex
                 /\ last'.status = IF heap'[ex].client = "error" THEN "connectError"
                                                                 ELSE "keyError"
                 /\ last'.did = <<"connect">>
                 /\ ~heap'[ex].connected]_vars

\* An execute on an executor whose transport the server had closed was
\* rejected by its connect.
ConnectFailureRejectsExecuteWitness ==
    /\ last.op = "exec" /\ last.status = "connectError"
    /\ last.was = "closed"
    /\ heap[last.ret].client = "error"

\* C17: after the client of a connected SSHExecutor emitted 'close',
\* connected is false, and the next execute calls connect before it hands
\* its command to the transport; when that connect succeeds and the command
\* runs to its end, the call resolves with the command's result.
CloseThenExecuteReconnects ==
    /\ \A ex \in held : heap[ex].client = "closed" => ~heap[ex].connected
    /\ (last.op = "exec" /\ last.was = "closed")
          => /\ last.did \in {<<"connect">>, <<"connect", "exec">>}
             /\ last.did = <<"connect">> <=> last.cause \in {"connectError", "keyError"}
             /\ last.cause \in {"ok", "execError", "connectError", "keyError"}
             /\ last.cause = "ok"
                   => /\ last.status = "ok"
                      /\ last.result.exitCode = last.code

\* An execute after a server-side close reconnected and returned the
\* result of its command.
CloseThenExecuteReconnectsWitness ==
    /\ last.op = "exec" /\ last.was = "closed"
    /\ last.cause = "ok" /\ last.did = <<"connect", "exec">>
    /\ last.result.exitCode = JsNumber(1)

\* C18: dispose() of an executor never throws; every call on an SSHExecutor
\* leaves client = null and connected = false with no transport client
\* open, whatever the instance was (never connected, connecting, connected,
\* closed, failed, already disposed), and a call on a LocalExecutor changes
\* nothing.
DisposeIsIdempotent ==
    [][last'.op = "executorDispose"
          => /\ last'.status = "ok"
             /\ last'.ret \in held
             /\ heap[last'.ret].kind = "ssh"
                   => /\ heap'[last'.ret] = [heap[last'.ret] EXCEPT !.client = "null",
                                                                   !.connected = FALSE]
                      /\ ~HasOpenClient(heap'[last'.ret])
             /\ heap[last'.ret].kind = "local" => heap'[last'.ret] = heap[last'.ret]
             /\ \A ex \in held \ {last'.ret} : heap'[ex] = heap[ex]]_vars

\* dispose was called again on an SSHExecutor that was disposed while its
\* execute was connecting.
DisposeIsIdempotentWitness ==
    /\ last.op = "executorDispose" /\ last.was = "null"
    /\ heap[last.ret].kind = "ssh"
    /\ \E c \in DOMAIN calls : calls[c].pc = "reconnect" /\ calls[c].ex = last.ret

\* The step by which its own executor answers the pending call of caller c
\* is enabled: the transport becomes ready, the continuation after
\* getExecutor runs, the command ends.
AnswerEnabled(c) ==
    /\ calls[c].pc = "connect" => ENABLED ConnectReady(c)
    /\ (calls[c].pc = "reconnect" /\ heap[calls[c].ex].client = "connecting")
          => ENABLED ReconnectReady(c)
    /\ calls[c].pc = "gotExecutor" => ENABLED ExecutorExecute(c, TRUE)
    /\ calls[c].pc = "exec" => ENABLED StreamClose(c, JsNumber(0), ProbeOutput, << >>)
    /\ calls[c].pc = "local" => ENABLED LocalResolve(c, ProbeOutput, << >>)

\* C19: while a call on another connection is pending, in whatever state,
\* the step by which its own executor completes a pending call is enabled:
\* a getExecutor or execute that never settles neither prevents nor delays
\* the calls of the other connection.
OtherConnectionsDoNotBlock ==
    \A c \in DOMAIN calls :
        (\E other \in DOMAIN calls :
            /\ calls[c].op \in ExecuteOps /\ calls[other].op \in ExecuteOps
            /\ calls[other].id # calls[c].id)
            => AnswerEnabled(c)

\* A command on the local connection completed while a call on the ssh
\* connection was waiting for its transport.
OtherConnectionsDoNotBlockWitness ==
    /\ last.op = "execute" /\ last.id = LOCAL_CONNECTION_ID /\ last.cause = "ok"
    /\ \E c \in DOMAIN calls :
          calls[c].id = "ssh-1" /\ calls[c].pc \in {"connect", "reconnect", "exec"}

\* The statement of C20 as the spec has it: a mutating operation that has
\* settled has passed exactly one command to the executor.
OneCommandPerOperation ==
    (svc.op \in MutatingOps /\ svc.pc = "done") => Len(svc.issued) = 1

\* C20: every mutating operation passes its own command to the executor
\* first; every operation but createSession passes no other; createSession
\* passes one more, list-sessions, after its new-session command exited
\* with code 0, and no other when that command failed or was rejected.
OneCommandPlusRefresh ==
    svc.op \in MutatingOps
        => /\ svc.issued[1] = TmuxCommand(svc.op, svc.args)
           /\ Len(svc.issued) <= 2
           /\ Len(svc.issued) = 2
                 <=> /\ svc.op = "createSession"
                     /\ svc.exit = JsNumber(0)
           /\ Len(svc.issued) = 2 => svc.issued[2] = ListSessionsCommand

\* createSession has returned a session of the refreshed listing after its
\* two commands.
OneCommandPlusRefreshWitness ==
    /\ svc.op = "createSession" /\ svc.pc = "done" /\ svc.status = "ok"
    /\ Len(svc.issued) = 2
    /\ svc.ret # NoSession

\* The commands of a settled operation that execute rejected instead of
\* resolving: the registry or the transport failed.
ExecuteRejected ==
    \/ svc.result = NoResult
    \/ Len(svc.issued) = 2 /\ svc.listed = NoResult

\* C21: a mutating operation that has settled has rejected exactly when
\* its command exited with a code other than 0 or execute itself rejected;
\* the error of a non-zero exit carries the captured stderr when that is
\* not empty and the generic message of the operation when it is.
RejectsIffCommandFails ==
    (svc.op \in MutatingOps /\ svc.pc = "done")
        => /\ svc.status \in {"ok", "failed", "rejected"}
           /\ svc.status = "rejected" <=> ExecuteRejected
           /\ svc.status = "failed"
                 <=> (svc.result # NoResult /\ svc.result.exitCode # JsNumber(0))
           /\ svc.status = "failed"
                 => svc.message = IF svc.result.stderr.s = << >> THEN GenericMessage(svc.op)
                                  ELSE svc.result.stderr

\* killPane has thrown the trimmed stderr of its command, which exited
\* with code 1.
RejectsIffCommandFailsWitness ==
    /\ svc.op = "killPane" /\ svc.pc = "done" /\ svc.status = "failed"
    /\ svc.result.exitCode = JsNumber(1)
    /\ svc.message = JsString(<<"n", "o">>)

\* C22: createSession whose new-session command exited with 0 returns,
\* without raising, from the sessions that listSessions makes of the
\* refreshed listing: without a requested name the last of them, with a
\* requested name the one of exactly that name, and null when there is
\* none; after a non-zero exit it throws and has issued no listing.
CreateSessionReturnsFromListing ==
    (svc.op = "createSession" /\ svc.pc = "done" /\ svc.result # NoResult)
        => IF svc.result.exitCode # JsNumber(0)
           THEN svc.status = "failed" /\ svc.issued = <<TmuxCommand(svc.op, svc.args)>>
           ELSE svc.listed # NoResult
                   => LET sessions == ListSessions(svc.listed)
                          name == svc.args.name
                      IN /\ svc.status = "ok"
                         /\ svc.issued[2] = ListSessionsCommand
                         /\ IF JsTruthy(name)
                            THEN \/ /\ svc.ret = NoSession
                                    /\ \A i \in 1..Len(sessions) : sessions[i].name # name.s
                                 \/ /\ svc.ret.name = name.s
                                    /\ \E i \in 1..Len(sessions) : sessions[i] = svc.ret
                            ELSE \/ svc.ret = NoSession /\ sessions = << >>
                                 \/ sessions # << >> /\ svc.ret = sessions[Len(sessions)]

\* createSession without a name has returned the second of two listed
\* sessions.
CreateSessionReturnsFromListingWitness ==
    /\ svc.op = "createSession" /\ svc.pc = "done" /\ svc.status = "ok"
    /\ ~JsTruthy(svc.args.name)
    /\ Len(ListSessions(svc.listed)) = 2
    /\ svc.ret = ListSessions(svc.listed)[2]

\* A listing operation has returned what it read from a command that
\* exited with code 0.
ListingReturned(op) ==
    /\ svc.op = op /\ svc.pc = "done" /\ svc.status = "ok"
    /\ svc.result.exitCode = JsNumber(0)

\* The rows of the listing that have the fields the operation requires.
WellFormed(rows, fields) == SelectSeq(rows, LAMBDA row : Len(row.fields) >= fields)

\* C23: of an output whose N lines all have at least 4 fields, listSessions
\* returns N records in the order of the lines, each with the id and name of
\* fields 1 and 2, attached exactly when field 3 is "1" and the number of
\* field 4 as windowCount; listWindows returns N records with id, index,
\* name and active (exactly when field 4 is "1").
WellFormedLinesAllReturned ==
    /\ (ListingReturned("listSessions") /\ WellFormed(svc.input, 4) = svc.input)
          => /\ Len(svc.ret) = Len(svc.input)
             /\ \A i \in 1..Len(svc.input) :
                   LET row == svc.input[i]
                   IN /\ svc.ret[i].id = row.fields[1]
                      /\ svc.ret[i].name = row.fields[2]
                      /\ svc.ret[i].attached <=> row.fields[3] = <<"1">>
                      /\ svc.ret[i].windowCount = row.numbers[1]
    /\ (ListingReturned("listWindows") /\ WellFormed(svc.input, 4) = svc.input)
          => /\ Len(svc.ret) = Len(svc.input)
             /\ \A i \in 1..Len(svc.input) :
                   LET row == svc.input[i]
                   IN /\ svc.ret[i].id = row.fields[1]
                      /\ svc.ret[i].index = row.numbers[1]
                      /\ svc.ret[i].name = row.fields[3]
                      /\ svc.ret[i].active <=> row.fields[4] = <<"1">>

\* listSessions has returned three sessions of three lines, the third with
\* the flag "11" and so not attached.
WellFormedLinesAllReturnedWitness ==
    /\ ListingReturned("listSessions")
    /\ Len(svc.input) = 3 /\ Len(svc.ret) = 3
    /\ svc.input[3].fields[3] = <<"1", "1">>
    /\ ~svc.ret[3].attached
    /\ svc.ret[2].windowCount = 12

\* C24: the records a listing returns are those of the lines that have the
\* required number of fields (4, in listPanes 7), in the order of the
\* lines: a line with fewer fields is left out and takes no line before or
\* after it with it.
MalformedLinesLeftOut ==
    \A op \in ListingOps :
        ListingReturned(op)
            => LET kept == WellFormed(svc.input, IF op = "listPanes" THEN 7 ELSE 4)
               IN /\ Len(svc.ret) = Len(kept)
                  /\ \A i \in 1..Len(kept) : svc.ret[i].id = kept[i].fields[1]

\* listPanes has returned the panes of the first and the third line; the
\* second line has 6 fields.
MalformedLinesLeftOutWitness ==
    /\ ListingReturned("listPanes")
    /\ Len(svc.input) = 3
    /\ Len(svc.input[1].fields) = 7
    /\ Len(svc.input[2].fields) = 6
    /\ Len(svc.input[3].fields) = 7
    /\ Len(svc.ret) = 2
    /\ svc.ret[2].id = svc.input[3].fields[1]

\* C25: a listing operation whose command exited with a code other than 0
\* or printed nothing but whitespace returns the empty list; when execute
\* rejects, the operation rejects with that same error.
FailedListingIsEmpty ==
    (svc.op \in ListingOps /\ svc.pc = "done")
        => /\ svc.status \in {"ok", "rejected"}
           /\ svc.status = "rejected" <=> svc.result = NoResult
           /\ svc.status = "rejected"
                 => svc.cause \in ExecuteErrors /\ svc.message = JsString(<<svc.cause>>)
           /\ (/\ svc.status = "ok"
               /\ \/ svc.result.exitCode # JsNumber(0)
                  \/ Trim(OutputOf(svc.input)) = << >>)
                 => svc.ret = << >>

\* list-windows printed two well-formed lines and exited with code 1:
\* listWindows has returned the empty list.
FailedListingIsEmptyWitness ==
    /\ svc.op = "listWindows" /\ svc.pc = "done" /\ svc.status = "ok"
    /\ svc.result.exitCode = JsNumber(1)
    /\ Len(WellFormed(svc.input, 4)) = 2
    /\ svc.ret = << >>

\* C26: listPanes returns one record per line of at least 7 fields, in the
\* order of the lines, with id, index, active, currentPath, currentCommand,
\* width and height of fields 1 to 7; an empty path field gives "~", an
\* empty command field the empty string.
PanesReadFromSevenFields ==
    ListingReturned("listPanes")
        => LET kept == WellFormed(svc.input, 7)
           IN /\ Len(svc.ret) = Len(kept)
              /\ \A i \in 1..Len(kept) :
                    LET row == kept[i]
                    IN /\ svc.ret[i].id = row.fields[1]
                       /\ svc.ret[i].index = row.numbers[1]
                       /\ svc.ret[i].active <=> row.fields[3] = <<"1">>
                       /\ svc.ret[i].currentPath
                             = IF row.fields[4] = << >> THEN <<"~">> ELSE row.fields[4]
                       /\ svc.ret[i].currentCommand = row.fields[5]
                       /\ svc.ret[i].width = row.numbers[2]
                       /\ svc.ret[i].height = row.numbers[3]

\* listPanes has returned a pane whose line had no path and no command:
\* its path is "~", its command empty, its size 120 by 40.
PanesReadFromSevenFieldsWitness ==
    /\ ListingReturned("listPanes")
    /\ Len(svc.ret) = 2
    /\ svc.input[2].fields[4] = << >>
    /\ svc.ret[2].currentPath = <<"~">>
    /\ svc.ret[2].currentCommand = << >>
    /\ svc.ret[2].width = 120 /\ svc.ret[2].height = 40

\* The commands that the windows and panes of the sessions of a tree call
\* for, session by session: list-windows of the session, then list-panes of
\* each of its windows, by index.
RECURSIVE TreeCommands(_)
TreeCommands(tree) ==
    IF tree = << >> THEN << >>
    ELSE LET session == Head(tree)
         IN <<ListWindowsCommand(session.name)>>
               \o [j \in 1..Len(session.windows) |->
                      ListPanesCommand(session.name, NumberText(session.windows[j].index))]
               \o TreeCommands(Tail(tree))

\* The number of windows in a tree.
RECURSIVE WindowCount(_)
WindowCount(tree) ==
    IF tree = << >> THEN 0 ELSE Len(Head(tree).windows) + WindowCount(Tail(tree))

\* The place among the commands of the list-panes command for window j of
\* session i.
PanesCommandAt(tree, i, j) ==
    1 + (i - 1) + WindowCount(SubSeq(tree, 1, i - 1)) + 1 + j

\* The ids of the panes that an answer lists.
PaneIdsOf(answer) ==
    IF answer.exitCode # JsNumber(0) THEN << >>
    ELSE LET kept == WellFormed(answer.rows, 7)
         IN [k \in 1..Len(kept) |-> kept[k].fields[1]]

\* C27: a getSessionTree that has returned has issued list-sessions, then
\* for each session in the order of the listing list-windows and one
\* list-panes per window of the session, addressed by session name and
\* window index, before the commands of the next session: 1 + S + W
\* commands, and each window carries the panes that its own list-panes
\* command printed.
TreeWalksSessionsThenWindows ==
    (svc.op = "getSessionTree" /\ svc.pc = "done" /\ svc.status = "ok")
        => /\ svc.issued = <<ListSessionsCommand>> \o TreeCommands(svc.ret)
           /\ Len(svc.issued) = 1 + Len(svc.ret) + WindowCount(svc.ret)
           /\ \A i \in 1..Len(svc.ret) :
                 \A j \in 1..Len(svc.ret[i].windows) :
                    LET panes == svc.ret[i].windows[j].panes
                        ids == PaneIdsOf(svc.answers[PanesCommandAt(svc.ret, i, j)])
                    IN /\ Len(panes) = Len(ids)
                       /\ \A k \in 1..Len(ids) : panes[k].id = ids[k]

\* Two sessions, the first with the windows 0 and 12 (id @5), the second
\* with window 0: 6 commands, the fourth of them list-panes for "d:12", and
\* only the first window of the first session has a pane.
TreeWalksSessionsThenWindowsWitness ==
    /\ svc.op = "getSessionTree" /\ svc.pc = "done" /\ svc.status = "ok"
    /\ Len(svc.ret) = 2
    /\ Len(svc.ret[1].windows) = 2 /\ Len(svc.ret[2].windows) = 1
    /\ Len(svc.issued) = 6
    /\ svc.ret[1].windows[2].id = <<"@", "5">>
    /\ svc.issued[4] = ListPanesCommand(<<"d">>, <<"1", "2">>)
    /\ Len(svc.ret[1].windows[1].panes) = 1
    /\ svc.ret[1].windows[2].panes = << >>
    /\ svc.ret[2].windows[1].panes = << >>

\* The number of lines of a file that are the line 'set -g mouse on'.
MouseOnLines(file) == Len(SelectSeq(file.lines, LAMBDA line : line = MouseOnLine))

LiveOptionAlwaysSet ==
    (svc.op \in MouseOps /\ svc.pc = "done" /\ svc.status # "rejected")
        => /\ svc.status = "ok"
           /\ svc.issued[Len(svc.issued)]
                 = SetOptionCommand(IF svc.op = "enableMouseMode" THEN "on" ELSE "off")

\* The registered connections of type ssh, in the order of the Map.
RegisteredSSH == SelectSeq(connections, LAMBDA c : c.type = "ssh")

\* C30: when addSSHConnection, updateSSHConnection or removeConnection has
\* completed, the persisted list holds the registered connections of type
\* ssh, in the order of the registry and without their secrets, and no
\* record with the id of the local connection; the registry that a restart
\* builds from the list holds the local connection and then the records
\* of the list.
PersistedListIsRegistry ==
    /\ (last.op \in {"add", "update", "remove"} /\ last.status = "ok")
          => /\ Len(persisted) = Len(RegisteredSSH)
             /\ \A i \in 1..Len(persisted) :
                   /\ persisted[i]
                         = [RegisteredSSH[i] EXCEPT !.config.password = Undefined,
                                                    !.config.passphrase = Undefined]
                   /\ persisted[i].id # LOCAL_CONNECTION_ID
    /\ last.op = "restart" => connections = <<LocalConnection>> \o persisted

\* The statement of C30 for the ids other than that of the local
\* connection, which addSSHConnection accepts.
PersistedListIsRegistryButLocal ==
    (\A i \in 1..Len(connections) :
        connections[i].id = LOCAL_CONNECTION_ID => connections[i].type = "local")
        => PersistedListIsRegistry

\* A restart has registered ssh-2 and ssh-1, in the order in which they
\* were added.
PersistedListIsRegistryButLocalWitness ==
    /\ last.op = "restart"
    /\ Len(persisted) = 2
    /\ persisted[1].id = "ssh-2" /\ persisted[2].id = "ssh-1"
    /\ Len(connections) = 3

\* Windows and panes as tmux has them: a window whose name holds a colon,
\* a pane whose current path holds one.
ReportedWindows ==
    {[id |-> <<"@", "0">>, index |-> <<"0">>, name |-> <<"w">>, active |-> <<"1">>],
     [id |-> <<"@", "2">>, index |-> <<"3">>, name |-> <<"a", ":", "b">>, active |-> <<"1">>]}

ReportedPanes ==
    {[id |-> <<"%", "0">>, index |-> <<"0">>, active |-> <<"1">>, path |-> <<"/", "h">>,
      command |-> <<"s", "h">>, width |-> <<"8", "0">>, height |-> <<"2", "4">>],
     [id |-> <<"%", "2">>, index |-> <<"2">>, active |-> <<"0">>, path |-> <<"/", "a", ":", "b">>,
      command |-> <<"v", "i">>, width |-> <<"8", "0">>, height |-> <<"2", "4">>]}

\* What list-windows and list-panes print for them with the formats of
\* listWindows and listPanes.
RECURSIVE PrintedWindows(_)
PrintedWindows(ws) ==
    IF ws = << >> THEN << >>
    ELSE LET w == Head(ws)
         IN JoinFields(<<w.id, w.index, w.name, w.active>>) \o <<"\n">>
               \o PrintedWindows(Tail(ws))

RECURSIVE PrintedPanes(_)
PrintedPanes(ps) ==
    IF ps = << >> THEN << >>
    ELSE LET q == Head(ps)
         IN JoinFields(<<q.id, q.index, q.active, q.path, q.command, q.width, q.height>>)
               \o <<"\n">> \o PrintedPanes(Tail(ps))

\* C39: the records that listWindows and listPanes return for what tmux
\* printed carry the name and the active flag of each window, and the
\* active flag and the current path of each pane, as tmux has them, also
\* when a name or a path holds a colon.
ReportedValuesCarried ==
    /\ \A ws \in RowSeqs(ReportedWindows) :
          (ListingReturned("listWindows") /\ svc.result.stdout.s = Trim(PrintedWindows(ws)))
             => /\ Len(svc.ret) = Len(ws)
                /\ \A i \in 1..Len(ws) :
                      /\ svc.ret[i].name = ws[i].name
                      /\ svc.ret[i].active <=> ws[i].active = <<"1">>
    /\ \A ps \in RowSeqs(ReportedPanes) :
          (ListingReturned("listPanes") /\ svc.result.stdout.s = Trim(PrintedPanes(ps)))
             => /\ Len(svc.ret) = Len(ps)
                /\ \A i \in 1..Len(ps) :
                      /\ svc.ret[i].currentPath = ps[i].path
                      /\ svc.ret[i].active <=> ps[i].active = <<"1">>

\* The secret a connect uses: the one of the registered config when it has
\* one, otherwise the stored one.
InMemoryOrStored(inMemory, stored) ==
    IF Truthy(inMemory) THEN inMemory ELSE IF Truthy(stored) THEN stored ELSE inMemory

\* A getExecutor call (a caller's own, or the one of execute) is at
\* "await executor.connect()" with client.connect called.
Connecting(c) == InGetExecutor(c, "connect") /\ heap[calls[c].ex].client = "connecting"

\* The SSH executor that getExecutor builds connects to the registered
\* host, port and username, with the password (for password authentication)
\* or passphrase (for private-key authentication) of the registered config
\* if it has one and otherwise with the one stored under the connection id,
\* and with no secret of the other kind.
ConnectsWithInMemoryOrStoredSecret ==
    \A c \in DOMAIN calls :
        Connecting(c) =>
            LET id == calls[c].id
                registered == MapGet(connections, id).config
                used == ConnectConfig(heap[calls[c].ex].config)
            IN /\ IsRegisteredSSH(connections, id)
               /\ used.host = registered.host
               /\ used.port = registered.port
               /\ used.username = registered.username
               /\ registered.authType = "password" =>
                     /\ used.password = InMemoryOrStored(registered.password,
                                             SecretsGet(secrets, PasswordKey(id)))
                     /\ used.passphrase = Undefined
               /\ registered.authType = "privateKey" =>
                     /\ used.passphrase =
                           IF Truthy(InMemoryOrStored(registered.passphrase,
                                         SecretsGet(secrets, PassphraseKey(id))))
                           THEN InMemoryOrStored(registered.passphrase,
                                    SecretsGet(secrets, PassphraseKey(id)))
                           ELSE Undefined
                     /\ used.password = Undefined

\* A step of a getExecutor call.
GetExecutorStep ==
    \/ \E c \in DOMAIN calls : calls[c].op = "getExecutor"
    \/ \E c \in DOMAIN calls' : calls'[c].op = "getExecutor"
    \/ last'.op = "getExecutor"

\* C31: when getExecutor builds an SSH executor it connects with the
\* in-memory password or passphrase of the registered config if it has one
\* and otherwise with the stored one, a password only for password
\* authentication and a passphrase only for private-key authentication, and
\* every step of the call leaves the connection records and the Credential
\* Store as they were.
GetExecutorConnectsAndLeavesState ==
    [][/\ GetExecutorStep => connections' = connections /\ secrets' = secrets
       /\ ConnectsWithInMemoryOrStoredSecret']_vars

\* A connect with the stored password: the registered config has none.
GetExecutorConnectsAndLeavesStateWitness ==
    \E c \in DOMAIN calls :
        /\ Connecting(c)
        /\ MapGet(connections, calls[c].id).config.authType = "password"
        /\ ~Truthy(MapGet(connections, calls[c].id).config.password)
        /\ Truthy(SecretsGet(secrets, PasswordKey(calls[c].id)))
        /\ ConnectConfig(heap[calls[c].ex].config).password
              = SecretsGet(secrets, PasswordKey(calls[c].id))

\* The chunks of a channel, in arrival order, as one string.
RECURSIVE ConcatChannel(_, _)
ConcatChannel(arrived, channel) ==
    IF arrived = << >> THEN << >>
    ELSE (IF Head(arrived)[1] = channel THEN Head(arrived)[2] ELSE << >>)
            \o ConcatChannel(Tail(arrived), channel)

\* An execute of an SSHExecutor resolved in the last step.
StreamResolved == last.op = "exec" /\ last.cause = "ok" /\ heap[last.ret].kind = "ssh"

\* C32: when the stream of a command closes, execute resolves with stdout
\* the concatenation of the data chunks in arrival order, stderr the
\* concatenation of the chunks of the error channel and exitCode the code
\* that 'close' carried.
ResolvesWithChunksAndCloseCode ==
    StreamResolved =>
        /\ last.result.stdout = JsString(ConcatChannel(last.arrived, "data"))
        /\ last.result.stderr = JsString(ConcatChannel(last.arrived, "stderr"))
        /\ last.result.exitCode = last.code

\* What the code resolves with: the concatenations with the whitespace at
\* both ends removed, and 0 for a close without a code.
ResolvesWithTrimmedChunks ==
    StreamResolved =>
        /\ last.result.stdout = JsString(Trim(ConcatChannel(last.arrived, "data")))
        /\ last.result.stderr = JsString(Trim(ConcatChannel(last.arrived, "stderr")))
        /\ last.result.exitCode = IF last.code = JsNull THEN JsNumber(0) ELSE last.code

\* C34: an SSH executor that the registry has disposed and evicted opens no
\* transport client again: no execute that finds the executor without a
\* client (only the registry's dispose leaves it so) calls connect on it.
EvictedExecutorStaysClosed ==
    \A c \in DOMAIN calls :
        ~(/\ calls[c].op \in ExecuteOps
          /\ calls[c].pc = "reconnect"
          /\ calls[c].was = "null"
          /\ heap[calls[c].ex].client = "connecting"
          /\ calls[c].ex \notin Cached(executors))

\* C33: once the extension is deactivated (dispose() has returned) and the
\* getExecutor calls that were pending have settled, the executor cache is
\* empty and no SSH executor holds a transport client that is open or being
\* opened.
DisposedRegistryHoldsNothing ==
    (~active /\ AllIdle) =>
        /\ Cached(executors) = {}
        /\ \A ex \in DOMAIN heap : ~HasOpenClient(heap[ex])

\* C35: an SSHExecutor with connected = true has a client, and that client
\* has emitted 'ready' and neither 'close' nor 'error' since.
ConnectedMeansCurrentClientReady ==
    \A ex \in DOMAIN heap :
        (heap[ex].kind = "ssh" /\ heap[ex].connected) => heap[ex].client = "ready"

\* C36: of execute calls that overlap on one SSHExecutor, each command is
\* handed to a client that has emitted 'ready', and once the calls have
\* settled the executor has left at most one client open.
OverlappingExecutesShareOneClient ==
    /\ \A c \in DOMAIN calls :
          (calls[c].op = "exec" /\ calls[c].pc = "exec") => calls[c].sent = "ready"
    /\ AllIdle => \A ex \in DOMAIN heap : OpenClients(heap[ex]) <= 1

\* C37: a store or delete call of the Credential Store that rejects inside
\* addSSHConnection or removeConnection leaves the connection set, the
\* executor cache with the state of its executors, the Credential Store and
\* the persisted list as they were before the call.
StoreFailureChangesNothing ==
    last.status = "storeError" => Snapshot = last.before

\* What does hold: a rejected call leaves the connection set and the
\* persisted list as they were.
StoreFailureLeavesConnections ==
    last.status = "storeError" =>
        /\ connections = last.before.connections
        /\ persisted = last.before.persisted

\* The connections of a ConnectionManager constructed now.
RestartedConnections == LoadInto(<<LocalConnection>>, persisted)

\* C38: between calls, for every ssh connection that is registered and is
\* registered again after a restart, a getExecutor made now and one made
\* after a restart connect with the same host, port, username, password
\* and passphrase.
RestartKeepsConnectConfig ==
    AllIdle =>
        \A id \in ConnectionIds :
            (/\ IsRegisteredSSH(connections, id)
             /\ MapGet(connections, id).config # NoConfig
             /\ IsRegisteredSSH(RestartedConnections, id))
               => ConnectConfig(ExecutorConfig(connections, secrets, id))
                     = ConnectConfig(ExecutorConfig(RestartedConnections, secrets, id))

\* The executors that getExecutor builds are built with ExecutorConfig.
BuiltWithExecutorConfig ==
    \A c \in DOMAIN calls :
        Connecting(c) =>
            heap[calls[c].ex].config = ExecutorConfig(connections, secrets, calls[c].id)

=============================================================================
